---- MODULE Spec2Model ----
(***************************************************************************)
(* Automaton Auditor: the LangGraph pipeline of src/src/graph.py           *)
(* (detectives -> aggregator / abort -> router -> judges -> chief justice) *)
(* and the reducers of src/src/state.py, as a state machine.               *)
(*                                                                         *)
(* The graph is executed in supersteps: every node scheduled in a          *)
(* superstep reads the state as it was when the superstep began, returns a *)
(* partial update, and the updates are folded into the state with the      *)
(* channel reducers once every node of the superstep has returned.  A      *)
(* conditional edge attached to a node is evaluated for that node, on the  *)
(* snapshot plus that node's own update.                                   *)
(*                                                                         *)
(* Texts (error strings, arguments) are sequences of word tokens.          *)
(* state.get(k, default) and state.k both read field k of the state.       *)
(***************************************************************************)
EXTENDS Integers, Sequences, FiniteSets, TLC

VARIABLES
    repo_url,           \* AgentState.repo_url
    pdf_path,           \* AgentState.pdf_path            ("" when absent)
    local_repo_path,    \* AgentState.local_repo_path     ("" when absent)
    rubric_dimensions,  \* AgentState.rubric_dimensions
    evidences,          \* AgentState.evidences   (reducer operator.ior)
    opinions,           \* AgentState.opinions    (reducer operator.add)
    final_report,       \* AgentState.final_report
    errors,             \* AgentState.errors      (reducer operator.add)
    running,            \* nodes of the current superstep that have not returned
    pending,            \* node -> update returned in this superstep, not yet merged
    next_nodes,         \* nodes triggered for the next superstep
    superstep,          \* number of the current superstep (0 before START)
    runs,               \* node -> number of times the node has executed
    returned,           \* node -> the last update the node returned
    seen,               \* node -> the evidence map the node read when it started
    jdim,               \* judge -> index of the dimension it is deliberating on
    jcalls,             \* judge -> model invocations made for that dimension
    jop,                \* judge -> opinion of the retry loop (None until a call succeeds)
    jlast,              \* judge -> last_error of the retry loop
    jops,               \* judge -> opinions list built so far
    faults              \* model failures the environment may still inject

vars == <<repo_url, pdf_path, local_repo_path, rubric_dimensions, evidences,
          opinions, final_report, errors, running, pending, next_nodes,
          superstep, runs, returned, seen, jdim, jcalls, jop, jlast, jops, faults>>

inputVars == <<repo_url, pdf_path, rubric_dimensions>>
judgeVars == <<jdim, jcalls, jop, jlast, jops>>

----------------------------------------------------------------------------
(* Bounds and program constants *)

MaxFaults == 3          \* model failures injected per run
attempts == 3           \* judges.py: attempts = 3
MinEvidence == 1        \* graph.py: total_evidence < 1

Detectives == {"repo_investigator", "doc_analyst", "vision_inspector"}
Judges == {"Prosecutor", "Defense", "TechLead"}
JudgeNode(j) ==
    CASE j = "Prosecutor" -> "prosecutor"
      [] j = "Defense" -> "defense"
      [] j = "TechLead" -> "tech_lead"
JudgeNodes == {JudgeNode(j) : j \in Judges}
Nodes == Detectives \cup JudgeNodes \cup
         {"evidence_aggregator", "abort", "router_to_judges", "chief_justice"}

None == [none |-> TRUE]
NoUpdate == [n \in {} |-> 0]

----------------------------------------------------------------------------
(* src/src/state.py: Evidence and the reducers of AgentState *)

\* confidence is kept as a fraction <<numerator, denominator>>
Evidence(goal, found, content, num, den) ==
    [goal |-> goal, found |-> found, content |-> content, confidence |-> <<num, den>>]

RECURSIVE SumSeq(_)
SumSeq(s) == IF s = <<>> THEN 0 ELSE Head(s) + SumSeq(Tail(s))

\* the update map replaces the accumulated map
ior_overwrite(a, b) == b

\* operator.ior on dicts: a |= b
ior(a, b) == [k \in (DOMAIN a) \cup (DOMAIN b) |-> IF k \in DOMAIN b THEN b[k] ELSE a[k]]

\* the update list replaces the accumulated list
add_overwrite(a, b) == b

\* operator.add on lists: a + b
add(a, b) == a \o b

State == [repo_url |-> repo_url, pdf_path |-> pdf_path,
          local_repo_path |-> local_repo_path,
          rubric_dimensions |-> rubric_dimensions, evidences |-> evidences,
          opinions |-> opinions, final_report |-> final_report, errors |-> errors]

\* one channel of the state after update u: reducer channels fold, the others
\* take the last value written
Channel(st, u, k) ==
    IF k \notin DOMAIN u THEN st[k]
    ELSE CASE k = "evidences" -> ior(st[k], u[k])
           [] k = "opinions" -> add(st[k], u[k])
           [] k = "errors" -> add(st[k], u[k])
           [] OTHER -> u[k]

ApplyUpdate(st, u) == [k \in DOMAIN st |-> Channel(st, u, k)]

----------------------------------------------------------------------------
(* src/src/graph.py: routing functions and abort_node *)

should_aggregate_or_abort(st) ==
    IF DOMAIN st.evidences = {} /\ st.errors # <<>> THEN "abort" ELSE "aggregate"

RECURSIVE CountItems(_, _)
CountItems(ev, keys) ==
    IF keys = {} THEN 0
    ELSE LET k == CHOOSE x \in keys : TRUE
         IN Len(ev[k]) + CountItems(ev, keys \ {k})

\* the comparison includes the minimum
after_aggregation_inclusive(st) ==
    IF CountItems(st.evidences, DOMAIN st.evidences) <= MinEvidence
    THEN "abort" ELSE "sufficient_evidence"

\* the edge aborts when one of the three sources is missing
after_aggregation_needs_all_sources(st) ==
    IF \E s \in {"repo", "doc", "vision"} : s \notin DOMAIN st.evidences
    THEN "abort" ELSE "sufficient_evidence"

after_aggregation(st) ==
    IF CountItems(st.evidences, DOMAIN st.evidences) < MinEvidence
    THEN "abort" ELSE "sufficient_evidence"

AbortMessage == <<"ABORT:", "Insufficient", "evidence", "collected", "to", "proceed",
                  "to", "Judicial", "review.">>

\* abort returns without recording why
abort_node_silent(st) == [errors |-> <<>>]

abort_node(st) == [errors |-> <<AbortMessage>>]

\* the "aggregate" route is wired past the aggregator
DetectiveRoute_skip_aggregator(st, u) ==
    IF should_aggregate_or_abort(ApplyUpdate(st, u)) = "abort"
    THEN "abort" ELSE "router_to_judges"

\* add_conditional_edges(<detective>, should_aggregate_or_abort, {...}): the
\* branch of one detective, decided on the snapshot plus its own update
DetectiveRoute(st, u) ==
    IF should_aggregate_or_abort(ApplyUpdate(st, u)) = "abort"
    THEN "abort" ELSE "evidence_aggregator"

\* add_conditional_edges("evidence_aggregator", after_aggregation, {...})
AggregatorRoute(st, u) ==
    IF after_aggregation(ApplyUpdate(st, u)) = "abort"
    THEN "abort" ELSE "router_to_judges"

----------------------------------------------------------------------------
(* The environment of a run: file system, network and model behaviour *)

Exists(path) == path \in {"/repo", "/repo_with_report"}      \* os.path.exists
HasReportPdf(path) == path = "/repo_with_report"             \* reports/*.pdf
ClonePath == "/tmp/clone"
ToolExc == {<<"io", "error">>}                               \* str(e) of a failing tool
\* str(e) of the model call number `call` of a retry loop when it fails
LlmExcAt(call) ==
    CASE call = 1 -> {<<"timeout">>}
      [] call = 2 -> {<<"rate", "limit">>}
      [] OTHER -> {<<"unsafe", "response">>, <<"connection", "reset">>}

\* what the repository tools can find: (safe_tool_engineering, the other goals)
RepoFindings == {<<TRUE, TRUE>>, <<FALSE, TRUE>>}
\* what the document tools can find: (verified paths, hallucinated paths, is_deep)
DocFindings == {<<TRUE, FALSE, TRUE>>, <<FALSE, TRUE, FALSE>>}
\* images of the PDF: for each image, whether the vision call succeeded
ImageCases == {<<>>, <<TRUE, FALSE, TRUE, TRUE>>}

----------------------------------------------------------------------------
(* src/src/nodes/detectives.py: the three detectives.  Each operator is    *)
(* the set of updates the node can return on snapshot st.                  *)

RepoEvidence(f) ==
    << Evidence("git_forensic_analysis", f[2], <<"log">>, 10, 10),
       Evidence("state_management_rigor", f[2], <<"ast">>, 10, 10),
       Evidence("graph_orchestration", f[2], <<"ast">>, 10, 10),
       Evidence("safe_tool_engineering", f[1], <<"ast">>, 10, 10),
       Evidence("structured_output_enforcement", f[2], <<"ast">>, 10, 10),
       Evidence("chief_justice_synthesis", f[2], <<"ast">>, 10, 10) >>

repo_investigator(st) ==
    LET local_path == st.local_repo_path
        failed == {[errors |-> << <<"RepoInvestigator", "failed:">> \o e >>] : e \in ToolExc}
        found(repo_path) ==
            {[evidences |-> [repo |-> RepoEvidence(f)], local_repo_path |-> repo_path]
                : f \in RepoFindings}
    IN IF local_path # "" /\ Exists(local_path)
       THEN found(local_path) \cup failed
       ELSE IF st.repo_url = ""
            THEN {[errors |-> << <<"RepoInvestigator:", "No", "repository", "URL",
                                   "provided", "and", "no", "local", "path", "found.">> >>]}
            ELSE found(ClonePath) \cup failed

\* "Internal PDF Discovery" shared by doc_analyst and vision_inspector
DiscoverPdf(st) ==
    IF st.pdf_path = "" /\ st.local_repo_path # "" /\ HasReportPdf(st.local_repo_path)
    THEN "reports/report.pdf" ELSE st.pdf_path

Concepts == <<"dialectical_synthesis", "fan_in___fan_out", "metacognition",
              "state_synchronization", "supreme_court", "digital_courtroom">>

DocEvidence(verified, hallucinated, is_deep) ==
    << Evidence("report_accuracy_forensics", verified, <<"paths">>, 10, 10),
       Evidence("path_hallucinations_detected", hallucinated,
                IF hallucinated THEN <<"paths">> ELSE <<"None">>, 10, 10) >>
    \o [i \in 1..Len(Concepts) |->
           Evidence(Concepts[i], is_deep, <<"excerpt">>, 8, 10)]

\* the discovered report path is written back to the state
doc_analyst_writes_pdf(st) ==
    LET pdf == DiscoverPdf(st)
        repo_path == st.local_repo_path
    IN IF pdf = ""
       THEN {[evidences |-> [doc |-> << Evidence("pdf_report_existence", FALSE, <<>>, 10, 10) >>]]}
       ELSE {[errors |-> << <<"DocAnalyst", "failed:">> \o e >>] : e \in ToolExc}
            \cup {[evidences |-> [doc |->
                      DocEvidence(IF repo_path # "" THEN f[1] ELSE FALSE,
                                  IF repo_path # "" THEN f[2] ELSE FALSE, f[3])],
                   pdf_path |-> pdf]
                    : f \in DocFindings}

\* the path cloned by repo_investigator in the same fan-out is visible
doc_analyst_sees_clone(st) ==
    LET pdf == DiscoverPdf(st)
        repo_path == IF st.local_repo_path = "" /\ st.repo_url # ""
                     THEN ClonePath ELSE st.local_repo_path
    IN IF pdf = ""
       THEN {[evidences |-> [doc |-> << Evidence("pdf_report_existence", FALSE, <<>>, 10, 10) >>]]}
       ELSE {[errors |-> << <<"DocAnalyst", "failed:">> \o e >>] : e \in ToolExc}
            \cup {[evidences |-> [doc |->
                      DocEvidence(IF repo_path # "" THEN f[1] ELSE FALSE,
                                  IF repo_path # "" THEN f[2] ELSE FALSE, f[3])]]
                    : f \in DocFindings}

doc_analyst(st) ==
    LET pdf == DiscoverPdf(st)
        repo_path == st.local_repo_path
    IN IF pdf = ""
       THEN {[evidences |-> [doc |-> << Evidence("pdf_report_existence", FALSE, <<>>, 10, 10) >>]]}
       ELSE {[errors |-> << <<"DocAnalyst", "failed:">> \o e >>] : e \in ToolExc}
            \cup {[evidences |-> [doc |->
                      DocEvidence(IF repo_path # "" THEN f[1] ELSE FALSE,
                                  IF repo_path # "" THEN f[2] ELSE FALSE, f[3])]]
                    : f \in DocFindings}

\* one Evidence per analysed image (image_paths[:3]); a failed vision call
\* still yields an Evidence, with confidence 0.5
MaxVisionImages == 3
ImageGoals == <<"diagram_analysis_img_0", "diagram_analysis_img_1", "diagram_analysis_img_2">>
ImageEvidence(images) ==
    LET target == SubSeq(images, 1, IF Len(images) < MaxVisionImages
                                    THEN Len(images) ELSE MaxVisionImages)
    IN [i \in 1..Len(target) |->
           Evidence(ImageGoals[i], TRUE,
                    IF target[i] THEN <<"analysis">> ELSE <<>>,
                    IF target[i] THEN 8 ELSE 5, 10)]

vision_inspector(st) ==
    LET pdf == DiscoverPdf(st)
    IN IF pdf = ""
       THEN {[evidences |-> [vision |-> << Evidence("swarm_visual", FALSE, <<>>, 10, 10) >>]]}
       ELSE {[errors |-> << <<"VisionInspector", "failed:">> \o e >>] : e \in ToolExc}
            \cup {[evidences |-> [vision |->
                      IF images = <<>>
                      THEN << Evidence("swarm_visual", FALSE, <<>>, 9, 10) >>
                      ELSE ImageEvidence(images)]]
                    : images \in ImageCases}

\* a detective that found evidence also reports a warning in the error list
DetectiveUpdates_with_warning(n, st) ==
    LET base == CASE n = "repo_investigator" -> repo_investigator(st)
                  [] n = "doc_analyst" -> doc_analyst(st)
                  [] n = "vision_inspector" -> vision_inspector(st)
    IN { IF "evidences" \in DOMAIN u
         THEN [k \in (DOMAIN u) \cup {"errors"} |->
                  IF k = "errors" THEN << <<"VisionInspector", "warning">> >> ELSE u[k]]
         ELSE u : u \in base }

DetectiveUpdates(n, st) ==
    CASE n = "repo_investigator" -> repo_investigator(st)
      [] n = "doc_analyst" -> doc_analyst(st)
      [] n = "vision_inspector" -> vision_inspector(st)

----------------------------------------------------------------------------
(* src/src/nodes/detectives.py: evidence_aggregator *)

RECURSIVE Flatten(_)
Flatten(ss) == IF ss = <<>> THEN <<>> ELSE Head(ss) \o Flatten(Tail(ss))

RECURSIVE Join(_, _)
Join(ss, sep) ==
    IF ss = <<>> THEN <<>>
    ELSE IF Len(ss) = 1 THEN Head(ss)
    ELSE Head(ss) \o <<sep>> \o Join(Tail(ss), sep)

\* next((e for e in items if e.goal == goal), None)
FirstWithGoal(items, goal) ==
    IF \E i \in 1..Len(items) : items[i].goal = goal
    THEN items[CHOOSE i \in 1..Len(items) :
                 /\ items[i].goal = goal
                 /\ \A k \in 1..(i - 1) : items[k].goal # goal]
    ELSE None

\* evidences.get(key, [])
GetList(ev, key) == IF key \in DOMAIN ev THEN ev[key] ELSE <<>>

\* the completeness audit does not expect the vision source
expected_sources_without_vision == <<"repo", "doc">>

expected_sources == <<"repo", "doc", "vision">>

\* the lists of all source keys, concatenated (the order of the keys does not
\* change any number computed from them)
RECURSIVE AllItems(_, _)
AllItems(ev, keys) ==
    IF keys = {} THEN <<>>
    ELSE LET k == CHOOSE x \in keys : TRUE
         IN ev[k] \o AllItems(ev, keys \ {k})

AggregationEvidence(st) ==
    LET ev == st.evidences
        errs == st.errors
        missing_sources == SelectSeq(expected_sources, LAMBDA s : s \notin DOMAIN ev)
        present_sources == SelectSeq(expected_sources, LAMBDA s : s \in DOMAIN ev)
        completeness ==
            << Evidence("evidence_completeness", Len(missing_sources) = 0,
                        <<"Present:">> \o present_sources \o <<"Missing:">> \o missing_sources,
                        10, 10) >>
        repo_evidence == GetList(ev, "repo")
        doc_evidence == GetList(ev, "doc")
        path_claims_evidence == FirstWithGoal(doc_evidence, "report_file_path_claims")
        cross_reference ==
            IF path_claims_evidence # None /\ path_claims_evidence.content # <<>>
               /\ repo_evidence # <<>>
            THEN << Evidence("cross_reference_readiness", TRUE, <<"paths", "to", "verify">>,
                             85, 100) >>
            ELSE <<>>
        all_evidence_items == AllItems(ev, DOMAIN ev)
        total_count == Len(all_evidence_items)
        \* sum of the confidences, in hundredths
        conf_sum == SumSeq([i \in 1..total_count |->
                        (all_evidence_items[i].confidence[1] * 100)
                            \div all_evidence_items[i].confidence[2]])
        found_count == Cardinality({i \in 1..total_count : all_evidence_items[i].found})
        quality ==
            IF total_count > 0
            THEN << Evidence("evidence_quality_summary",
                             conf_sum * 2 > 100 * total_count,      \* avg_confidence > 0.5
                             <<"Total", ToString(total_count), "Found", ToString(found_count),
                               "Missing", ToString(total_count - found_count)>>,
                             conf_sum, 100 * total_count) >>
            ELSE <<>>
        error_summary ==
            IF errs # <<>>
            THEN << Evidence("error_summary", FALSE, Join(errs, ";"), 10, 10) >>
            ELSE <<>>
    IN completeness \o cross_reference \o quality \o error_summary

\* the audit is written under the repository's key
evidence_aggregator_wrong_key(st) == [evidences |-> [repo |-> AggregationEvidence(st)]]

\* the audit is returned together with an emptied 'doc' list
evidence_aggregator_rewrites_doc(st) ==
    [evidences |-> [aggregation |-> AggregationEvidence(st), doc |-> <<>>]]

evidence_aggregator(st) == [evidences |-> [aggregation |-> AggregationEvidence(st)]]

----------------------------------------------------------------------------
(* src/src/nodes/judges.py: judge_node *)

JudicialOpinion(judge, criterion_id, score, argument, cited_evidence) ==
    [judge |-> judge, criterion_id |-> criterion_id, score |-> score,
     argument |-> argument, cited_evidence |-> cited_evidence]

\* what structured_llm.invoke(prompt) can return: the model fills every field,
\* the judge and criterion it names included
LowReply == JudicialOpinion("Defense", "made_up", 2, <<"Security", "negligence">>, <<"repo">>)
HighReply == JudicialOpinion("Prosecutor", "made_up", 9, <<"solid", "design">>, <<>>)
LlmReplies(dim) ==
    IF dim.id = "graph_orchestration" THEN {LowReply, HighReply} ELSE {HighReply}

NoError == <<>>

\* one attempt too many
LoopContinues_off_by_one(calls, opinion) == calls <= attempts /\ opinion = None

\* for i in range(attempts): ... break on the first opinion
LoopContinues(calls, opinion) == calls < attempts /\ opinion = None

\* "Force correct metadata", then JudicialOpinion(**opinion.model_dump())
CleanOpinion(reply, judge_name, dim) ==
    JudicialOpinion(judge_name, dim.id, reply.score, reply.argument, reply.cited_evidence)

FallbackPrefix == <<"ERROR:", "Failed", "to", "render", "opinion", "after",
                    ToString(attempts), "attempts.">>

FallbackOpinion(judge_name, dim, last_error) ==
    JudicialOpinion(judge_name, dim.id, 0, FallbackPrefix \o last_error, <<>>)

\* the else branch is missing: nothing is appended when every attempt failed
AppendOpinion_no_fallback(ops, opinion, judge_name, dim, last_error) ==
    IF opinion # None THEN Append(ops, CleanOpinion(opinion, judge_name, dim)) ELSE ops

\* if opinion: opinions.append(clean_opinion) else: opinions.append(<fallback>)
AppendOpinion(ops, opinion, judge_name, dim, last_error) ==
    IF opinion # None THEN Append(ops, CleanOpinion(opinion, judge_name, dim))
    ELSE Append(ops, FallbackOpinion(judge_name, dim, last_error))

----------------------------------------------------------------------------
(* src/src/nodes/justice.py: chief_justice_node.  Scores that may be means *)
(* are fractions <<numerator, denominator>> with a positive denominator.   *)

SecurityCap == 3                \* min(final_score, 3)
SecurityScoreLimit == 15        \* prosecutor.score < 15
DefenseThreshold == 21          \* defense.score > 21
EvidenceCap == 21               \* tech_lead.score if tech_lead else 21
DissentThreshold == 10          \* variance > 10
DefaultMaxScore == 35           \* ... if levels else 35

Frac(n) == <<n, 1>>
FracLeq(a, b) == a[1] * b[2] <= b[1] * a[2]
FracMin(a, b) == IF FracLeq(a, b) THEN a ELSE b            \* min(a, b)
Abs(x) == IF x < 0 THEN -x ELSE x
\* int(x): truncation toward zero
Trunc(a) == IF a[1] >= 0 THEN a[1] \div a[2] ELSE -((-a[1]) \div a[2])

\* word.lower() on the tokens of the model
Lower(tok) ==
    CASE tok = "Security" -> "security"
      [] tok = "ERROR:" -> "error:"
      [] tok = "Failed" -> "failed"
      [] OTHER -> tok
SecurityWords == {"security", "negligence", "unsafe", "raw shell", "os.system"}
\* any(word in argument.lower() for word in [...])
HasSecurityWord(argument) ==
    \E i \in 1..Len(argument) : Lower(argument[i]) \in SecurityWords

\* the first opinion of the dimension, whoever gave it
FirstByJudge_any(dim_opinions, judge) ==
    IF dim_opinions # <<>> THEN dim_opinions[1] ELSE None

\* next((o for o in dim_opinions if o.judge == judge), None)
FirstByJudge(dim_opinions, judge) ==
    IF \E i \in 1..Len(dim_opinions) : dim_opinions[i].judge = judge
    THEN dim_opinions[CHOOSE i \in 1..Len(dim_opinions) :
                        /\ dim_opinions[i].judge = judge
                        /\ \A k \in 1..(i - 1) : dim_opinions[k].judge # judge]
    ELSE None

\* opinions that report a failed call are left out of the arbitration
DimOpinions_without_failures(ops, dim) ==
    SelectSeq(ops, LAMBDA o : o.criterion_id = dim.id /\ o.score # 0)

DimOpinions(ops, dim) == SelectSeq(ops, LAMBDA o : o.criterion_id = dim.id)
Scores(dim_opinions) == [i \in 1..Len(dim_opinions) |-> dim_opinions[i].score]
SeqMax(s) == CHOOSE x \in {s[i] : i \in 1..Len(s)} : \A i \in 1..Len(s) : s[i] <= x
SeqMin(s) == CHOOSE x \in {s[i] : i \in 1..Len(s)} : \A i \in 1..Len(s) : x <= s[i]

\* the first opinion's score stands for the mean
Baseline_first(dim_opinions) == <<dim_opinions[1].score, 1>>

\* avg_score = sum(scores) / len(scores)
Baseline(dim_opinions) == <<SumSeq(Scores(dim_opinions)), Len(dim_opinions)>>
Variance(dim_opinions) == SeqMax(Scores(dim_opinions)) - SeqMin(Scores(dim_opinions))

\* the keyword alone triggers, whatever the Prosecutor's score
SecurityTriggered_keyword_only(dim_opinions, ev) ==
    LET prosecutor == FirstByJudge(dim_opinions, "Prosecutor")
        safe_tooling == FirstWithGoal(GetList(ev, "repo"), "safe_tool_engineering")
    IN \/ (prosecutor # None /\ HasSecurityWord(prosecutor.argument))
       \/ (safe_tooling # None /\ ~safe_tooling.found)

SecurityTriggered(dim_opinions, ev) ==
    LET prosecutor == FirstByJudge(dim_opinions, "Prosecutor")
        safe_tooling == FirstWithGoal(GetList(ev, "repo"), "safe_tool_engineering")
        is_security_flaw ==
            /\ prosecutor # None
            /\ prosecutor.score < SecurityScoreLimit
            /\ HasSecurityWord(prosecutor.argument)
    IN is_security_flaw \/ (safe_tooling # None /\ ~safe_tooling.found)

\* the cap is assigned instead of min(final_score, 3)
RuleOfSecurity_assign(score, dim_opinions, ev) ==
    IF SecurityTriggered(dim_opinions, ev) THEN Frac(SecurityCap) ELSE score

\* 1. Rule of Security
RuleOfSecurity(score, dim_opinions, ev) ==
    IF SecurityTriggered(dim_opinions, ev) THEN FracMin(score, Frac(SecurityCap)) ELSE score

\* the TechLead's score replaces the score on every dimension
RuleOfFunctionality_every_dimension(score, dim, dim_opinions) ==
    LET tech_lead == FirstByJudge(dim_opinions, "TechLead")
    IN IF tech_lead # None THEN Frac(tech_lead.score) ELSE score

\* 2. Rule of Functionality
RuleOfFunctionality(score, dim, dim_opinions) ==
    LET tech_lead == FirstByJudge(dim_opinions, "TechLead")
    IN IF dim.id = "graph_orchestration" /\ tech_lead # None
       THEN Frac(tech_lead.score) ELSE score

EvidenceOverrule(dim_opinions, ev) ==
    LET defense == FirstByJudge(dim_opinions, "Defense")
        completeness == FirstWithGoal(GetList(ev, "aggregation"), "evidence_completeness")
        hallucinations == FirstWithGoal(GetList(ev, "doc"), "path_hallucinations_detected")
    IN /\ defense # None
       /\ defense.score > DefenseThreshold
       /\ \/ (completeness # None /\ ~completeness.found)
          \/ (hallucinations # None /\ hallucinations.found)

\* the cap is applied without looking for a Defense opinion
RuleOfEvidence_no_role_guard(score, dim_opinions, ev) ==
    LET tech_lead == FirstByJudge(dim_opinions, "TechLead")
        completeness == FirstWithGoal(GetList(ev, "aggregation"), "evidence_completeness")
        hallucinations == FirstWithGoal(GetList(ev, "doc"), "path_hallucinations_detected")
    IN IF \/ (completeness # None /\ ~completeness.found)
          \/ (hallucinations # None /\ hallucinations.found)
       THEN FracMin(score, Frac(IF tech_lead # None THEN tech_lead.score ELSE EvidenceCap))
       ELSE score

\* the cap is assigned instead of min(final_score, cap)
RuleOfEvidence_assign(score, dim_opinions, ev) ==
    LET tech_lead == FirstByJudge(dim_opinions, "TechLead")
    IN IF EvidenceOverrule(dim_opinions, ev)
       THEN Frac(IF tech_lead # None THEN tech_lead.score ELSE EvidenceCap)
       ELSE score

\* 3. Rule of Evidence
RuleOfEvidence(score, dim_opinions, ev) ==
    LET tech_lead == FirstByJudge(dim_opinions, "TechLead")
    IN IF EvidenceOverrule(dim_opinions, ev)
       THEN FracMin(score, Frac(IF tech_lead # None THEN tech_lead.score ELSE EvidenceCap))
       ELSE score

LevelScores(dim) == [i \in 1..Len(dim.levels) |-> dim.levels[i].score]

\* the score is rounded down instead of mapped to a level
Nearest_truncate(score_values, score) == Trunc(score)

\* min(score_values, key=lambda x: abs(x - final_score)): the first of the
\* nearest values, in the order the levels are declared
Nearest(score_values, score) ==
    LET dist(x) == Abs(x * score[2] - score[1])
        i == CHOOSE k \in 1..Len(score_values) :
                /\ \A m \in 1..Len(score_values) : dist(score_values[k]) <= dist(score_values[m])
                /\ \A m \in 1..(k - 1) : dist(score_values[m]) > dist(score_values[k])
    IN score_values[i]

\* the adjusted score is kept as it is
SnapToLevel_off(score, dim) == score

\* 4. Map to Rubric Levels
SnapToLevel(score, dim) ==
    IF Len(dim.levels) > 0 THEN Frac(Nearest(LevelScores(dim), score)) ELSE score

AdjustedScore(dim, dim_opinions, ev) ==
    RuleOfEvidence(
        RuleOfFunctionality(
            RuleOfSecurity(Baseline(dim_opinions), dim_opinions, ev),
            dim, dim_opinions),
        dim_opinions, ev)

FinalScore(dim, dim_opinions, ev) == SnapToLevel(AdjustedScore(dim, dim_opinions, ev), dim)

DefaultRemediation == <<"Standard", "mitigation", "required.">>
NoDissent == <<>>

\* the security rule leaves the remediation alone
Remediation_tech_only(dim_opinions, ev) ==
    LET tech_lead == FirstByJudge(dim_opinions, "TechLead")
    IN IF tech_lead # None THEN tech_lead.argument ELSE DefaultRemediation

Remediation(dim_opinions, ev) ==
    LET prosecutor == FirstByJudge(dim_opinions, "Prosecutor")
        tech_lead == FirstByJudge(dim_opinions, "TechLead")
    IN IF SecurityTriggered(dim_opinions, ev)
       THEN <<"CRITICAL", "SECURITY", "FIX", "REQUIRED:">>
            \o (IF prosecutor # None THEN prosecutor.argument
                ELSE <<"Unsafe", "tool", "usage", "detected.">>)
       ELSE IF tech_lead # None THEN tech_lead.argument ELSE DefaultRemediation

\* the boundary is included: variance >= 10
DissentSummary_inclusive(dim_opinions) ==
    IF Variance(dim_opinions) >= DissentThreshold
    THEN <<"Judicial", "conflict", "detected.">> ELSE NoDissent

\* 5. Dissent Summary
DissentSummary(dim_opinions) ==
    LET prosecutor == FirstByJudge(dim_opinions, "Prosecutor")
        defense == FirstByJudge(dim_opinions, "Defense")
    IN IF Variance(dim_opinions) > DissentThreshold
       THEN <<"Judicial", "conflict", "detected.", "Prosecutor",
              IF prosecutor # None THEN ToString(prosecutor.score) ELSE "N/A",
              "Defense",
              IF defense # None THEN ToString(defense.score) ELSE "N/A">>
       ELSE NoDissent

\* "exchange" in k.lower(), on the level names of the model
IsExchangeName(name) == name \in {"No Exchange", "exchange"}

\* the first declared level instead of the highest
MaxLevelScore_first(dim) ==
    IF Len(dim.levels) > 0 THEN dim.levels[1].score ELSE DefaultMaxScore

MaxLevelScore(dim) ==
    IF Len(dim.levels) > 0 THEN SeqMax(LevelScores(dim)) ELSE DefaultMaxScore

\* the loop's locals final_score, dissent_summary, remediation after step 4
LocalsAfterSnap(dim, dim_opinions, ev) ==
    [final_score |-> FinalScore(dim, dim_opinions, ev),
     dissent_summary |-> NoDissent,
     remediation |-> Remediation(dim_opinions, ev)]

\* the dissent step also pulls the score down to the lowest opinion
DissentStep_adjusts(loc, dim_opinions) ==
    IF Variance(dim_opinions) > DissentThreshold
    THEN [loc EXCEPT !.dissent_summary = DissentSummary(dim_opinions),
                     !.final_score = Frac(SeqMin(Scores(dim_opinions)))]
    ELSE loc

\* step 5 on the locals: if variance > 10: dissent_summary = ...
DissentStep(loc, dim_opinions) ==
    [loc EXCEPT !.dissent_summary = DissentSummary(dim_opinions)]

\* the dict appended to results for one dimension
DimensionResult(dim, ops, ev) ==
    LET dim_opinions == DimOpinions(ops, dim)
        loc == DissentStep(LocalsAfterSnap(dim, dim_opinions, ev), dim_opinions)
        final_score == loc.final_score
    IN [dimension_id |-> dim.id,
        dimension_name |-> dim.name,
        final_score |-> Trunc(final_score),
        judge_opinions |-> dim_opinions,
        dissent_summary |-> loc.dissent_summary,
        remediation |-> loc.remediation,
        max_score |-> MaxLevelScore(dim),
        is_no_exchange |-> /\ final_score[1] = 0
                           /\ \E i \in 1..Len(dim.levels) : IsExchangeName(dim.levels[i].name)]

\* the loop stops at the first dimension without opinions
Results_stop_at_skip(dims, ops, ev) ==
    LET n == CHOOSE k \in 0..Len(dims) :
                 /\ \A i \in 1..k : DimOpinions(ops, dims[i]) # <<>>
                 /\ k < Len(dims) => DimOpinions(ops, dims[k + 1]) = <<>>
    IN [i \in 1..n |-> DimensionResult(dims[i], ops, ev)]

\* for dim in dimensions: ... if not dim_opinions: continue ... results.append
RECURSIVE Results(_, _, _)
Results(dims, ops, ev) ==
    IF dims = <<>> THEN <<>>
    ELSE (IF DimOpinions(ops, Head(dims)) = <<>> THEN <<>>
          ELSE << DimensionResult(Head(dims), ops, ev) >>)
         \o Results(Tail(dims), ops, ev)

\* the contributing opinions are rewritten with the arbitrated score
CriterionResult_rescored(r) ==
    [dimension_id |-> r.dimension_id, dimension_name |-> r.dimension_name,
     final_score |-> r.final_score,
     judge_opinions |-> [k \in 1..Len(r.judge_opinions) |->
                            [r.judge_opinions[k] EXCEPT !.score = r.final_score]],
     dissent_summary |-> r.dissent_summary, remediation |-> r.remediation]

CriterionResult(r) ==
    [dimension_id |-> r.dimension_id, dimension_name |-> r.dimension_name,
     final_score |-> r.final_score, judge_opinions |-> r.judge_opinions,
     dissent_summary |-> r.dissent_summary, remediation |-> r.remediation]

\* Final Report Assembly
AuditReport(st) ==
    LET results == Results(st.rubric_dimensions, st.opinions, st.evidences)
        valid_results == SelectSeq(results, LAMBDA r : ~r.is_no_exchange)
        total_raw_points == SumSeq([i \in 1..Len(results) |-> results[i].final_score])
        total_possible_points ==
            SumSeq([i \in 1..Len(valid_results) |-> valid_results[i].max_score])
        valid_points == SumSeq([i \in 1..Len(valid_results) |-> valid_results[i].final_score])
        overall_percentage ==
            IF total_possible_points > 0
            THEN <<valid_points * 100, total_possible_points>> ELSE Frac(0)
    IN [repo_url |-> st.repo_url,
        executive_summary |-> <<"Final", "Grade:", ToString(total_raw_points), "/",
                                ToString(total_possible_points)>>,
        overall_score |-> overall_percentage,
        criteria |-> [i \in 1..Len(results) |-> CriterionResult(results[i])],
        remediation_plan |-> Flatten([i \in 1..Len(results) |->
                                <<"###", results[i].dimension_name>> \o results[i].remediation]),
        timestamp |-> "now"]

chief_justice_node(st) == [final_report |-> AuditReport(st)]

\* builder.add_node("router_to_judges", lambda x: x): the state itself is the update
router_to_judges(st) == st

----------------------------------------------------------------------------
(* Inputs of a run: main.py run_audit / run_audit_local, test_local.py *)

Level(name, score) == [name |-> name, score |-> score]
DimGraph == [id |-> "graph_orchestration", name |-> "Graph Orchestration",
             levels |-> <<Level("Master", 10), Level("Competent", 5), Level("Novice", 1)>>]
DimSafe == [id |-> "safe_tool_engineering", name |-> "Safe Tool Engineering",
            levels |-> <<Level("Novice", 1), Level("Competent", 5), Level("Master", 10)>>]

RunInput(url, pdf, path, dims) ==
    [repo_url |-> url, pdf_path |-> pdf, local_repo_path |-> path, rubric_dimensions |-> dims]
RunInputs ==
    { RunInput("https://github.com/o/r", "", "", <<DimGraph, DimSafe>>),
      RunInput("https://github.com/o/r", "report.pdf", "/repo", <<DimSafe>>),
      RunInput("LOCAL_AUDIT_WORKSPACE", "", "/repo_with_report", <<>>),
      RunInput("", "", "", <<DimGraph>>),
      RunInput("https://github.com/o/r", "report.pdf", "", <<DimSafe>>) }

EmptyMap == [k \in {} |-> <<>>]

Init ==
    /\ \E i \in RunInputs :
          /\ repo_url = i.repo_url
          /\ pdf_path = i.pdf_path
          /\ local_repo_path = i.local_repo_path
          /\ rubric_dimensions = i.rubric_dimensions
    /\ evidences = EmptyMap
    /\ opinions = <<>>
    /\ final_report = None
    /\ errors = <<>>
    \* add_edge(START, <detective>) for the three detectives
    /\ running = Detectives
    /\ pending = NoUpdate
    /\ next_nodes = {}
    /\ superstep = 1
    /\ runs = [n \in Nodes |-> IF n \in Detectives THEN 1 ELSE 0]
    /\ returned = [n \in Nodes |-> NoUpdate]
    /\ seen = [n \in Nodes |-> EmptyMap]
    /\ jdim = [j \in Judges |-> 0]
    /\ jcalls = [j \in Judges |-> 0]
    /\ jop = [j \in Judges |-> None]
    /\ jlast = [j \in Judges |-> NoError]
    /\ jops = [j \in Judges |-> <<>>]
    /\ faults = MaxFaults

----------------------------------------------------------------------------
(* The superstep loop *)

stateVars == <<repo_url, pdf_path, local_repo_path, rubric_dimensions, evidences,
               opinions, final_report, errors>>

\* node n returns update u and triggers the nodes in targets
Return(n, u, targets) ==
    /\ running' = running \ {n}
    /\ pending' = [m \in (DOMAIN pending) \cup {n} |-> IF m = n THEN u ELSE pending[m]]
    /\ next_nodes' = next_nodes \cup targets
    /\ returned' = [returned EXCEPT ![n] = u]
    /\ UNCHANGED <<stateVars, superstep, runs, seen>>

Detective(n) ==
    /\ n \in running \cap Detectives
    /\ \E u \in DetectiveUpdates(n, State) : Return(n, u, {DetectiveRoute(State, u)})
    /\ UNCHANGED <<judgeVars, faults>>

EvidenceAggregator ==
    /\ "evidence_aggregator" \in running
    /\ LET u == evidence_aggregator(State)
       IN Return("evidence_aggregator", u, {AggregatorRoute(State, u)})
    /\ UNCHANGED <<judgeVars, faults>>

\* add_edge("abort", END)
Abort ==
    /\ "abort" \in running
    /\ Return("abort", abort_node(State), {})
    /\ UNCHANGED <<judgeVars, faults>>

\* the router is also wired to the chief justice
RouterTargets_with_chief == JudgeNodes \cup {"chief_justice"}

\* add_edge("router_to_judges", <judge>) for the three judges
RouterTargets == JudgeNodes

RouterToJudges ==
    /\ "router_to_judges" \in running
    /\ Return("router_to_judges", router_to_judges(State), RouterTargets)
    /\ UNCHANGED <<judgeVars, faults>>

JudgeActive(j) == JudgeNode(j) \in running /\ jdim[j] >= 1

\* The judge's code between two model calls.  After a call the retry loop
\* either goes on (same dimension, next attempt) or is over: the opinion, or
\* the fallback, is appended and the loop over the dimensions goes on; after
\* the last dimension the node returns {"opinions": opinions}.
\* add_edge(<judge>, "chief_justice")
JudgeContinue(j, calls, opinion, last_error) ==
    IF LoopContinues(calls, opinion)
    THEN /\ jcalls' = [jcalls EXCEPT ![j] = calls]
         /\ jop' = [jop EXCEPT ![j] = opinion]
         /\ jlast' = [jlast EXCEPT ![j] = last_error]
         /\ UNCHANGED <<jdim, jops, running, pending, next_nodes, returned>>
    ELSE LET ops == AppendOpinion(jops[j], opinion, j, rubric_dimensions[jdim[j]], last_error)
         IN /\ jops' = [jops EXCEPT ![j] = ops]
            /\ jdim' = [jdim EXCEPT ![j] = @ + 1]
            /\ jcalls' = [jcalls EXCEPT ![j] = 0]
            /\ jop' = [jop EXCEPT ![j] = None]
            /\ jlast' = [jlast EXCEPT ![j] = NoError]
            /\ IF jdim[j] = Len(rubric_dimensions)
               THEN /\ running' = running \ {JudgeNode(j)}
                    /\ pending' = [m \in (DOMAIN pending) \cup {JudgeNode(j)} |->
                                     IF m = JudgeNode(j) THEN [opinions |-> ops] ELSE pending[m]]
                    /\ next_nodes' = next_nodes \cup {"chief_justice"}
                    /\ returned' = [returned EXCEPT ![JudgeNode(j)] = [opinions |-> ops]]
               ELSE UNCHANGED <<running, pending, next_nodes, returned>>

\* opinion = structured_llm.invoke(prompt) returns; the metadata is forced
JudgeInvokeOk(j) ==
    /\ JudgeActive(j)
    /\ jdim[j] <= Len(rubric_dimensions)
    /\ \E reply \in LlmReplies(rubric_dimensions[jdim[j]]) :
          JudgeContinue(j, jcalls[j] + 1,
                        [reply EXCEPT !.judge = j, !.criterion_id = rubric_dimensions[jdim[j]].id],
                        jlast[j])
    /\ UNCHANGED <<stateVars, superstep, runs, seen, faults>>

\* structured_llm.invoke(prompt) raises: last_error = e
JudgeInvokeFail(j) ==
    /\ JudgeActive(j)
    /\ jdim[j] <= Len(rubric_dimensions)
    /\ faults > 0
    /\ \E e \in LlmExcAt(jcalls[j] + 1) : JudgeContinue(j, jcalls[j] + 1, jop[j], e)
    /\ faults' = faults - 1
    /\ UNCHANGED <<stateVars, superstep, runs, seen>>

\* a rubric without dimensions: the node returns without calling the model
JudgeReturn(j) ==
    /\ JudgeActive(j)
    /\ jdim[j] > Len(rubric_dimensions)
    /\ Return(JudgeNode(j), [opinions |-> jops[j]], {"chief_justice"})
    /\ UNCHANGED <<judgeVars, faults>>

\* add_edge("chief_justice", END)
ChiefJustice ==
    /\ "chief_justice" \in running
    /\ Return("chief_justice", chief_justice_node(State), {})
    /\ UNCHANGED <<judgeVars, faults>>

\* every node of the superstep has returned: fold one pending update into the state
ApplyWrites(n) ==
    /\ running = {}
    /\ n \in DOMAIN pending
    /\ LET st == ApplyUpdate(State, pending[n])
       IN /\ repo_url' = st.repo_url
          /\ pdf_path' = st.pdf_path
          /\ local_repo_path' = st.local_repo_path
          /\ rubric_dimensions' = st.rubric_dimensions
          /\ evidences' = st.evidences
          /\ opinions' = st.opinions
          /\ final_report' = st.final_report
          /\ errors' = st.errors
    /\ pending' = [m \in (DOMAIN pending) \ {n} |-> pending[m]]
    /\ UNCHANGED <<running, next_nodes, superstep, runs, returned, seen, judgeVars, faults>>

\* all updates are merged: the triggered nodes start on the merged state
StartSuperstep ==
    /\ running = {}
    /\ DOMAIN pending = {}
    /\ next_nodes # {}
    /\ running' = next_nodes
    /\ next_nodes' = {}
    /\ superstep' = superstep + 1
    /\ runs' = [n \in Nodes |-> IF n \in next_nodes THEN runs[n] + 1 ELSE runs[n]]
    /\ seen' = [n \in Nodes |-> IF n \in next_nodes THEN evidences ELSE seen[n]]
    /\ jdim' = [j \in Judges |-> IF JudgeNode(j) \in next_nodes THEN 1 ELSE jdim[j]]
    /\ jcalls' = [j \in Judges |-> IF JudgeNode(j) \in next_nodes THEN 0 ELSE jcalls[j]]
    /\ jop' = [j \in Judges |-> IF JudgeNode(j) \in next_nodes THEN None ELSE jop[j]]
    /\ jlast' = [j \in Judges |-> IF JudgeNode(j) \in next_nodes THEN NoError ELSE jlast[j]]
    /\ jops' = [j \in Judges |-> IF JudgeNode(j) \in next_nodes THEN <<>> ELSE jops[j]]
    /\ UNCHANGED <<stateVars, pending, returned, faults>>

Next ==
    \/ \E n \in Detectives : Detective(n)
    \/ EvidenceAggregator
    \/ Abort
    \/ RouterToJudges
    \/ \E j \in Judges : JudgeInvokeOk(j)
    \/ \E j \in Judges : JudgeInvokeFail(j)
    \/ \E j \in Judges : JudgeReturn(j)
    \/ ChiefJustice
    \/ \E n \in Nodes : ApplyWrites(n)
    \/ StartSuperstep

Spec == Init /\ [][Next]_vars

\* graph.invoke has returned
Ended == running = {} /\ DOMAIN pending = {} /\ next_nodes = {}

\* the two terminal stages
AbortOutcome == runs["abort"] > 0
ArbitrateOutcome == runs["chief_justice"] > 0

----------------------------------------------------------------------------
(* Vocabulary of the properties *)

Scheduled == running \cup DOMAIN pending

\* Barrier A: the three detectives have returned and their updates are merged
BarrierA == superstep = 1 /\ running = {} /\ DOMAIN pending = {}

Succeeded(n) == "evidences" \in DOMAIN returned[n]
Failed(n) == returned[n] # NoUpdate /\ "evidences" \notin DOMAIN returned[n]

\* the identity a detective puts at the head of its error strings
ErrorTag(n) ==
    CASE n = "repo_investigator" -> {"RepoInvestigator", "RepoInvestigator:"}
      [] n = "doc_analyst" -> {"DocAnalyst"}
      [] n = "vision_inspector" -> {"VisionInspector"}

ErrorsNaming(n) == {i \in 1..Len(errors) : Head(errors[i]) \in ErrorTag(n)}

IsPrefix(a, b) == Len(a) <= Len(b) /\ SubSeq(b, 1, Len(a)) = a

----------------------------------------------------------------------------
(* C1: after the three detectives are merged, abort runs iff the merged    *)
(* evidence map is empty and the error list is non-empty; otherwise only   *)
(* the aggregate stage runs.                                               *)
C1_AbortIffNoEvidence ==
    (superstep = 2 /\ running # {}) =>
        Scheduled = (IF DOMAIN evidences = {} /\ errors # <<>>
                     THEN {"abort"} ELSE {"evidence_aggregator"})

(* C2: abort is terminal and exclusive: a run in which abort executes runs *)
(* no judge and no chief justice and ends without final_report; a run that *)
(* ends with a final_report holds no 'ABORT:' error.                       *)
C2_AbortTerminalExclusive ==
    /\ runs["abort"] > 0 =>
          /\ \A j \in Judges : runs[JudgeNode(j)] = 0
          /\ runs["chief_justice"] = 0
          /\ final_report = None
    /\ (Ended /\ final_report # None) =>
          \A i \in 1..Len(errors) : Head(errors[i]) # "ABORT:"

(* C3: failure isolation at Barrier A: the merged evidence map holds every *)
(* returned source key with exactly the list returned, and the error list  *)
(* holds exactly one entry naming each detective that failed.              *)
C3_FailureIsolation ==
    BarrierA =>
        \A n \in Detectives :
            /\ Succeeded(n) =>
                  /\ DOMAIN returned[n].evidences # {}
                  /\ \A k \in DOMAIN returned[n].evidences :
                        k \in DOMAIN evidences /\ evidences[k] = returned[n].evidences[k]
            /\ Failed(n) => Cardinality(ErrorsNaming(n)) = 1

C3_Witness ==
    /\ BarrierA
    /\ \E n, m \in Detectives : Failed(n) /\ Succeeded(m)

(* C4: the evidence merge is commutative: folding the detectives' partial  *)
(* outputs with the reducer in any completion order gives the same map,    *)
(* the one the state holds at Barrier A.                                   *)
CompletionOrders ==
    {o \in [1..3 -> Detectives] : \A i, k \in 1..3 : i # k => o[i] # o[k]}

EvidencePartial(n) == IF Succeeded(n) THEN returned[n].evidences ELSE EmptyMap

MergeInOrder(o) ==
    ior(ior(ior(EmptyMap, EvidencePartial(o[1])), EvidencePartial(o[2])), EvidencePartial(o[3]))

C4_MergeCommutative ==
    /\ (superstep = 1 /\ running = {}) =>
          \A o1, o2 \in CompletionOrders : MergeInOrder(o1) = MergeInOrder(o2)
    /\ BarrierA => \A o \in CompletionOrders : evidences = MergeInOrder(o)

C4_Witness == BarrierA /\ Cardinality(DOMAIN evidences) = 3

(* C5 as claimed: a merge whose update carries a source key the evidence   *)
(* map already holds leaves, at that key, the previous list followed by    *)
(* the update's items; no list ever shrinks or is reordered.               *)
ListsOnlyGrow ==
    \A k \in DOMAIN evidences :
        k \in DOMAIN evidences' /\ IsPrefix(evidences[k], evidences'[k])

BarrierB == "chief_justice" \in running

C6_OneOpinionPerPair ==
    BarrierB =>
        /\ Len(opinions) = 3 * Len(rubric_dimensions)
        /\ \A j \in Judges : \A d \in 1..Len(rubric_dimensions) :
              Cardinality({i \in 1..Len(opinions) :
                              /\ opinions[i].judge = j
                              /\ opinions[i].criterion_id = rubric_dimensions[d].id}) = 1

IsFallback(o) == o.score = 0 /\ IsPrefix(FallbackPrefix, o.argument)

C6_Witness ==
    /\ BarrierB
    /\ Len(rubric_dimensions) = 2
    /\ \E i \in 1..Len(opinions) : IsFallback(opinions[i])

(* C7: for each (judge, dimension) pair the model is invoked at most 3     *)
(* times and never after a successful call; a failed call below the bound  *)
(* only retries; the third failed call emits a fallback opinion with score *)
(* 0, tagged with the judge and the dimension id, whose argument carries   *)
(* the failure reason of that last call.                                   *)
Invoked(j) == JudgeActive(j) /\ (jcalls'[j] # jcalls[j] \/ jdim'[j] # jdim[j])
CallFailed == faults' # faults

C7_BoundedRetryThenFallback ==
    [][ \A j \in Judges : Invoked(j) =>
          /\ jcalls[j] < attempts
          /\ jop[j] = None
          /\ ~CallFailed => (jdim'[j] = jdim[j] + 1 /\ jcalls'[j] = 0)
          /\ (CallFailed /\ jcalls[j] + 1 < attempts) =>
                (jdim'[j] = jdim[j] /\ jops'[j] = jops[j] /\ jcalls'[j] = jcalls[j] + 1)
          /\ (CallFailed /\ jcalls[j] + 1 = attempts) =>
                /\ jdim'[j] = jdim[j] + 1
                /\ Len(jops'[j]) = Len(jops[j]) + 1
                /\ LET o == jops'[j][Len(jops'[j])]
                   IN /\ o.score = 0
                      /\ o.judge = j
                      /\ o.criterion_id = rubric_dimensions[jdim[j]].id
                      /\ \E e \in LlmExcAt(attempts) : o.argument = FallbackPrefix \o e ]_vars

C7_Witness ==
    \E j \in Judges :
        /\ JudgeNode(j) \in running
        /\ faults = MaxFaults - attempts
        /\ \E i \in 1..Len(jops[j]) : IsFallback(jops[j][i])

(* C8: no judge starts before the three detectives have returned, the      *)
(* routing is decided and the aggregator has returned; the evidence map a  *)
(* judge reads holds the 'aggregation' key and the complete list of every  *)
(* detective that returned evidence.                                       *)
C8_JudgesAfterAggregate ==
    \A j \in Judges : runs[JudgeNode(j)] > 0 =>
        /\ \A d \in Detectives : returned[d] # NoUpdate
        /\ returned["evidence_aggregator"] # NoUpdate
        /\ "evidence_aggregator" \notin Scheduled
        /\ "aggregation" \in DOMAIN seen[JudgeNode(j)]
        /\ \A d \in Detectives : Succeeded(d) =>
              \A k \in DOMAIN returned[d].evidences :
                  /\ k \in DOMAIN seen[JudgeNode(j)]
                  /\ seen[JudgeNode(j)][k] = returned[d].evidences[k]

C8_Witness ==
    \E j \in Judges :
        /\ JudgeNode(j) \in running
        /\ DOMAIN seen[JudgeNode(j)] = {"repo", "doc", "vision", "aggregation"}

(* C9: the chief justice executes at most once, only after the three       *)
(* judges have returned and their batches are merged; its report holds at  *)
(* most one CriterionResult per rubric dimension; final_report is set by   *)
(* that stage only and never changes once set.                             *)
RECURSIVE SumLen(_, _)
SumLen(f, keys) ==
    IF keys = {} THEN 0
    ELSE LET k == CHOOSE x \in keys : TRUE
         IN Len(f[k].opinions) + SumLen(f, keys \ {k})

C9_ArbitrateOnce ==
    /\ [](/\ runs["chief_justice"] <= 1
          /\ runs["chief_justice"] > 0 =>
                /\ \A j \in Judges :
                      /\ "opinions" \in DOMAIN returned[JudgeNode(j)]
                      /\ JudgeNode(j) \notin Scheduled
                      /\ \A i \in 1..Len(returned[JudgeNode(j)].opinions) :
                            \E k \in 1..Len(opinions) :
                                opinions[k] = returned[JudgeNode(j)].opinions[i]
                /\ Len(opinions) = SumLen(returned, JudgeNodes)
          /\ final_report # None =>
                /\ "final_report" \in DOMAIN returned["chief_justice"]
                /\ final_report = returned["chief_justice"].final_report
                /\ Len(final_report.criteria) <= Len(rubric_dimensions)
                /\ \A i, k \in 1..Len(final_report.criteria) :
                      i # k => final_report.criteria[i].dimension_id
                                 # final_report.criteria[k].dimension_id)
    /\ [][final_report # None => final_report' = final_report]_vars

C9_Witness ==
    /\ Ended
    /\ final_report # None
    /\ Len(final_report.criteria) = 2

(* C10: the Rule of Security never raises a score: for every dimension     *)
(* with opinions, the score after the rule is at most the baseline mean.   *)
C10_SecurityNeverRaises ==
    \A d \in 1..Len(rubric_dimensions) :
        LET dim_opinions == DimOpinions(opinions, rubric_dimensions[d])
        IN dim_opinions # <<>> =>
              FracLeq(RuleOfSecurity(Baseline(dim_opinions), dim_opinions, evidences),
                      Baseline(dim_opinions))

\* the rule triggers on a baseline above the cap, and on one below it
C10_Witness ==
    \E d \in 1..Len(rubric_dimensions) :
        LET dim_opinions == DimOpinions(opinions, rubric_dimensions[d])
        IN /\ dim_opinions # <<>>
           /\ SecurityTriggered(dim_opinions, evidences)
           /\ ~FracLeq(Baseline(dim_opinions), Frac(SecurityCap))
           /\ RuleOfSecurity(Baseline(dim_opinions), dim_opinions, evidences) = Frac(SecurityCap)

----------------------------------------------------------------------------
(* chief_justice_node as a function of its inputs: the rubric, the opinion *)
(* list and the evidence map are drawn from bounded sets, whether or not   *)
(* the judges of this repository would produce them, and the node is       *)
(* applied to them once.                                                   *)

ArbLevels ==
    { <<Level("Novice", 1), Level("Competent", 5), Level("Master", 10)>>,
      <<Level("Master", 10), Level("Competent", 5), Level("Novice", 1)>>,
      <<Level("Competent", 5), Level("Master", 10)>>,
      <<Level("No Exchange", 0), Level("Competent", 5), Level("Master", 10)>>,
      <<>> }
ArbDims ==
    { [id |-> i, name |-> "Dimension", levels |-> l] :
        i \in {"graph_orchestration", "safe_tool_engineering"}, l \in ArbLevels }
DimOther == [id |-> "judicial_nuance", name |-> "Judicial Nuance",
             levels |-> <<Level("Novice", 1), Level("Competent", 5), Level("Master", 10)>>]

\* what one judge contributes to a dimension: nothing, or <<score, argument>>
Absent == <<>>
ArbProsecutor ==
    {Absent, <<20, <<"Security", "negligence">>>>}
        \cup { <<sc, a>> : sc \in {0, 2, 4, 5},
                           a \in {<<"Security", "negligence">>, <<"weak", "design">>} }
ArbDefense == {Absent} \cup { <<sc, <<"good", "intent">>>> : sc \in {7, 8, 9, 10, 25} }
ArbTechLead == {Absent} \cup { <<sc, <<"refactor", "nodes">>>> : sc \in {2, 5, 6, 9} }

ArbOpinion(judge, dim, c) ==
    IF c = Absent THEN <<>>
    ELSE << JudicialOpinion(judge, dim.id, c[1], c[2], <<>>) >>
ArbOpinions(dim, p, d, t) ==
    ArbOpinion("Prosecutor", dim, p) \o ArbOpinion("Defense", dim, d)
        \o ArbOpinion("TechLead", dim, t)

\* evidence maps as the detectives and the aggregator leave them
ArbEvidenceOf(partial) ==
    ior(partial, evidence_aggregator([evidences |-> partial, errors |-> <<>>]).evidences)
ArbEvidences ==
    { ArbEvidenceOf([repo |-> RepoEvidence(<<TRUE, TRUE>>),
                     doc |-> DocEvidence(TRUE, FALSE, TRUE),
                     vision |-> ImageEvidence(<<TRUE>>)]),
      ArbEvidenceOf([repo |-> RepoEvidence(<<FALSE, TRUE>>),
                     doc |-> DocEvidence(TRUE, FALSE, TRUE),
                     vision |-> ImageEvidence(<<TRUE>>)]),
      ArbEvidenceOf([repo |-> RepoEvidence(<<TRUE, TRUE>>),
                     doc |-> DocEvidence(FALSE, TRUE, FALSE),
                     vision |-> ImageEvidence(<<TRUE>>)]),
      ArbEvidenceOf([doc |-> DocEvidence(TRUE, FALSE, TRUE)]) }

\* the rubric around the dimension under arbitration, and the opinions on
\* the other dimension
ArbShapes == {"alone", "other_after", "skipped_before"}
ArbRubric(dim, shape) ==
    CASE shape = "alone" -> <<dim>>
      [] shape = "other_after" -> <<dim, DimOther>>
      [] OTHER -> <<DimOther, dim>>
ArbOtherOpinions(shape) ==
    IF shape = "other_after"
    THEN << JudicialOpinion("TechLead", DimOther.id, 5, <<"refactor", "nodes">>, <<>>) >>
    ELSE <<>>

InitArb ==
    /\ repo_url = "https://github.com/o/r"
    /\ pdf_path = ""
    /\ local_repo_path = ClonePath
    /\ \E dim \in ArbDims, shape \in ArbShapes,
          p \in ArbProsecutor, d \in ArbDefense, t \in ArbTechLead :
          /\ rubric_dimensions = ArbRubric(dim, shape)
          /\ opinions = ArbOtherOpinions(shape) \o ArbOpinions(dim, p, d, t)
    /\ evidences \in ArbEvidences
    /\ final_report = None
    /\ errors = <<>>
    /\ running = {"chief_justice"}
    /\ pending = NoUpdate
    /\ next_nodes = {}
    /\ superstep = 5
    /\ runs = [n \in Nodes |-> IF n = "chief_justice" THEN 1 ELSE 0]
    /\ returned = [n \in Nodes |-> NoUpdate]
    /\ seen = [n \in Nodes |-> IF n = "chief_justice" THEN evidences ELSE EmptyMap]
    /\ jdim = [j \in Judges |-> 0]
    /\ jcalls = [j \in Judges |-> 0]
    /\ jop = [j \in Judges |-> None]
    /\ jlast = [j \in Judges |-> NoError]
    /\ jops = [j \in Judges |-> <<>>]
    /\ faults = 0

NextArb ==
    \/ ChiefJustice
    \/ ApplyWrites("chief_justice")

SpecArb == InitArb /\ [][NextArb]_vars

----------------------------------------------------------------------------
(* Properties of the arbitration *)

\* the report is in the state
Arbitrated == final_report # None
Criteria == final_report.criteria
\* the rubric dimension a CriterionResult belongs to
DimOf(r) ==
    rubric_dimensions[CHOOSE d \in 1..Len(rubric_dimensions) :
                          rubric_dimensions[d].id = r.dimension_id]
RolePresent(r, judge) ==
    \E i \in 1..Len(r.judge_opinions) : r.judge_opinions[i].judge = judge
RawScores(r) == {r.judge_opinions[i].score : i \in 1..Len(r.judge_opinions)}
DeclaredScores(dim) == {dim.levels[i].score : i \in 1..Len(dim.levels)}

(* C11: for every dimension on which the Rule of Security triggers, the    *)
(* final score of its CriterionResult is at most the security ceiling 3,   *)
(* after the later rules and level snapping.                               *)
C11_SecurityCeilingFinal ==
    Arbitrated =>
        \A i \in 1..Len(Criteria) :
            SecurityTriggered(Criteria[i].judge_opinions, evidences)
                => Criteria[i].final_score <= SecurityCap

(* C12: for every dimension with declared levels, the final score is one   *)
(* of the declared level scores, and snapping a declared level score       *)
(* returns that score.                                                     *)
C12_SnapClosedIdempotent ==
    Arbitrated =>
        \A i \in 1..Len(Criteria) :
            LET dim == DimOf(Criteria[i])
            IN Len(dim.levels) > 0 =>
                  /\ Criteria[i].final_score \in DeclaredScores(dim)
                  /\ SnapToLevel(Frac(Criteria[i].final_score), dim)
                        = Frac(Criteria[i].final_score)
                  /\ \A v \in DeclaredScores(dim) : SnapToLevel(Frac(v), dim) = Frac(v)

\* a score that is no declared level was snapped
C12_Witness ==
    /\ Arbitrated
    /\ \E i \in 1..Len(Criteria) :
          LET dim == DimOf(Criteria[i])
              a == AdjustedScore(dim, Criteria[i].judge_opinions, evidences)
          IN /\ Len(dim.levels) > 0
             /\ \A v \in DeclaredScores(dim) : v * a[2] # a[1]

(* C13: the final score is the declared level score nearest to the         *)
(* adjusted score and, of two equally near level scores, the lower one,    *)
(* whatever the order of the levels in the rubric.                         *)
NearestLowest(dim, a) ==
    LET dist(x) == Abs(x * a[2] - a[1])
        nearest == {x \in DeclaredScores(dim) :
                       \A y \in DeclaredScores(dim) : dist(x) <= dist(y)}
    IN CHOOSE x \in nearest : \A y \in nearest : x <= y

C13_TieBreaksLower ==
    Arbitrated =>
        \A i \in 1..Len(Criteria) :
            LET dim == DimOf(Criteria[i])
            IN Len(dim.levels) > 0 =>
                  Criteria[i].final_score
                     = NearestLowest(dim, AdjustedScore(dim, Criteria[i].judge_opinions,
                                                        evidences))

(* C14: a dissent summary is emitted for a dimension if and only if the    *)
(* spread max - min of the dimension's raw opinion scores strictly exceeds *)
(* the dissent threshold; a spread equal to the threshold emits none.      *)
RawSpread(r) ==
    LET hi == CHOOSE x \in RawScores(r) : \A y \in RawScores(r) : y <= x
        lo == CHOOSE x \in RawScores(r) : \A y \in RawScores(r) : x <= y
    IN hi - lo

C14_DissentIffRawSpread ==
    Arbitrated =>
        \A i \in 1..Len(Criteria) :
            (Criteria[i].dissent_summary # NoDissent)
                <=> (RawSpread(Criteria[i]) > DissentThreshold)

\* dissent is emitted on a dimension whose final score lies within the threshold
C14_Witness ==
    /\ Arbitrated
    /\ \E i \in 1..Len(Criteria) :
          /\ Criteria[i].dissent_summary # NoDissent
          /\ Criteria[i].final_score <= DissentThreshold

\* the spread equals the threshold
C14_Boundary ==
    /\ Arbitrated
    /\ \E i \in 1..Len(Criteria) :
          /\ RawSpread(Criteria[i]) = DissentThreshold
          /\ Criteria[i].dissent_summary = NoDissent

(* C15: on the 1-10 scale of the judges, three opinions scoring 2, 9 and 5 *)
(* get a dissent summary and three opinions scoring 5, 6 and 7 get none.   *)
C15_ThresholdScaledToRubric ==
    Arbitrated =>
        \A i \in 1..Len(Criteria) :
            Len(Criteria[i].judge_opinions) = 3 =>
                /\ RawScores(Criteria[i]) = {2, 5, 9} => Criteria[i].dissent_summary # NoDissent
                /\ RawScores(Criteria[i]) = {5, 6, 7} => Criteria[i].dissent_summary = NoDissent

(* C16: the final score, the remediation text and the opinion list of a    *)
(* CriterionResult are the values computed before the dissent step,        *)
(* whether or not a dissent summary is emitted; the dissent step writes    *)
(* only dissent_summary.                                                   *)
C16_DissentObservational ==
    Arbitrated =>
        \A i \in 1..Len(Criteria) :
            LET dim == DimOf(Criteria[i])
                dim_opinions == DimOpinions(opinions, dim)
                loc == LocalsAfterSnap(dim, dim_opinions, evidences)
            IN /\ Criteria[i].final_score = Trunc(loc.final_score)
               /\ Criteria[i].remediation = loc.remediation
               /\ Criteria[i].judge_opinions = dim_opinions
               /\ [DissentStep(loc, dim_opinions) EXCEPT !.dissent_summary = NoDissent] = loc

C16_Witness ==
    /\ Arbitrated
    /\ \E i \in 1..Len(Criteria) :
          /\ Criteria[i].dissent_summary # NoDissent
          /\ \A v \in RawScores(Criteria[i]) : v # Criteria[i].final_score

(* C17 as claimed: the remediation of every CriterionResult is the         *)
(* TechLead opinion's argument when the dimension has one and the default  *)
(* string otherwise; no rule replaces it.                                  *)
TechLeadOrDefault(r) ==
    IF RolePresent(r, "TechLead")
    THEN FirstByJudge(r.judge_opinions, "TechLead").argument
    ELSE <<"Standard", "mitigation", "required.">>

C17_RemediationFromTechLead ==
    Arbitrated =>
        \A i \in 1..Len(Criteria) : Criteria[i].remediation = TechLeadOrDefault(Criteria[i])

(* C17 amended: when the Rule of Security triggers on the dimension, the   *)
(* remediation is "CRITICAL SECURITY FIX REQUIRED:" followed by the        *)
(* Prosecutor's argument, or by "Unsafe tool usage detected." without a    *)
(* Prosecutor opinion; otherwise it is the TechLead opinion's argument     *)
(* when the dimension has one and the default string when it has none.     *)
C17_RemediationUnlessSecurity ==
    Arbitrated =>
        \A i \in 1..Len(Criteria) :
            Criteria[i].remediation =
                IF SecurityTriggered(Criteria[i].judge_opinions, evidences)
                THEN <<"CRITICAL", "SECURITY", "FIX", "REQUIRED:">>
                     \o (IF RolePresent(Criteria[i], "Prosecutor")
                         THEN FirstByJudge(Criteria[i].judge_opinions, "Prosecutor").argument
                         ELSE <<"Unsafe", "tool", "usage", "detected.">>)
                ELSE TechLeadOrDefault(Criteria[i])

\* the security rule triggers on a dimension that has a TechLead opinion
C17_Witness ==
    /\ Arbitrated
    /\ \E i \in 1..Len(Criteria) :
          /\ SecurityTriggered(Criteria[i].judge_opinions, evidences)
          /\ RolePresent(Criteria[i], "TechLead")
          /\ Criteria[i].remediation # TechLeadOrDefault(Criteria[i])

(* C18 as claimed: raw points are the sum of the final scores, possible    *)
(* points the sum over all CriterionResults of the dimension's maximum     *)
(* declared level score, and the overall score is raw / possible x 100     *)
(* (0 when possible is 0); no arbitrated dimension is left out.            *)
RawPoints == SumSeq([i \in 1..Len(Criteria) |-> Criteria[i].final_score])
MaxDeclared(dim) ==
    IF Len(dim.levels) = 0 THEN 35
    ELSE CHOOSE x \in DeclaredScores(dim) : \A y \in DeclaredScores(dim) : y <= x
Rollup(raw, possible) ==
    /\ final_report.executive_summary
          = <<"Final", "Grade:", ToString(raw), "/", ToString(possible)>>
    /\ IF possible = 0 THEN final_report.overall_score[1] = 0
       ELSE final_report.overall_score[1] * possible
               = raw * 100 * final_report.overall_score[2]

C18_RollupOverAll ==
    (Arbitrated /\ \A i \in 1..Len(Criteria) : Len(DimOf(Criteria[i]).levels) > 0) =>
        Rollup(RawPoints,
               SumSeq([i \in 1..Len(Criteria) |-> MaxDeclared(DimOf(Criteria[i]))]))

(* C18 amended: possible points are the sum, over the CriterionResults     *)
(* that are not "no exchange" (final score 0 on a dimension with a level   *)
(* whose name contains "exchange"), of the dimension's maximum declared    *)
(* level score, 35 for a dimension without levels; raw points are the sum  *)
(* of all final scores and the overall score is raw / possible x 100, or 0 *)
(* when possible is 0.                                                     *)
NoExchange(r) ==
    /\ r.final_score = 0
    /\ \E k \in 1..Len(DimOf(r).levels) : IsExchangeName(DimOf(r).levels[k].name)

C18_RollupSkipsNoExchange ==
    Arbitrated =>
        Rollup(RawPoints,
               SumSeq([i \in 1..Len(Criteria) |->
                          IF NoExchange(Criteria[i]) THEN 0
                          ELSE MaxDeclared(DimOf(Criteria[i]))]))

\* a "no exchange" dimension beside a counted one
C18_Witness ==
    /\ Arbitrated
    /\ Len(Criteria) = 2
    /\ \E i \in 1..Len(Criteria) : NoExchange(Criteria[i])

(* C19: the report holds exactly one CriterionResult for every rubric      *)
(* dimension with at least one matching opinion and none for a dimension   *)
(* without, in rubric order; skipping a dimension adds no error entry and  *)
(* does not stop the arbitration of the dimensions after it.               *)
HasOpinion(dim) == \E k \in 1..Len(opinions) : opinions[k].criterion_id = dim.id
Ids(dims) == [i \in 1..Len(dims) |-> dims[i].id]

C19_OneResultPerOpinedDimension ==
    Arbitrated =>
        /\ [i \in 1..Len(Criteria) |-> Criteria[i].dimension_id]
              = Ids(SelectSeq(rubric_dimensions, HasOpinion))
        /\ "errors" \notin DOMAIN returned["chief_justice"]
        /\ errors = <<>>

\* a dimension without opinions precedes an arbitrated one
C19_Witness ==
    /\ Arbitrated
    /\ Len(rubric_dimensions) = 2
    /\ ~HasOpinion(rubric_dimensions[1])
    /\ Len(Criteria) = 1
    /\ Criteria[1].dimension_id = rubric_dimensions[2].id

(* C20 as claimed: for every non-empty subset of the three roles present   *)
(* on a dimension and every evidence map, arbitration yields a             *)
(* CriterionResult, and a rule whose role is absent (Prosecutor for the    *)
(* Rule of Security, TechLead for the Rule of Functionality, Defense for   *)
(* the Rule of Evidence) leaves the score unchanged.                       *)
AfterSecurity(dim, ops) == RuleOfSecurity(Baseline(ops), ops, evidences)
AfterFunctionality(dim, ops) == RuleOfFunctionality(AfterSecurity(dim, ops), dim, ops)
AfterEvidence(dim, ops) == RuleOfEvidence(AfterFunctionality(dim, ops), ops, evidences)
HasResult(dim) == \E i \in 1..Len(Criteria) : Criteria[i].dimension_id = dim.id
UnsafeToolingFound ==
    /\ "repo" \in DOMAIN evidences
    /\ \E k \in 1..Len(evidences["repo"]) :
          /\ evidences["repo"][k].goal = "safe_tool_engineering"
          /\ ~evidences["repo"][k].found

RoleRulesSkipped(dim, ops) ==
    /\ (\A k \in 1..Len(ops) : ops[k].judge # "TechLead")
          => AfterFunctionality(dim, ops) = AfterSecurity(dim, ops)
    /\ (\A k \in 1..Len(ops) : ops[k].judge # "Defense")
          => AfterEvidence(dim, ops) = AfterFunctionality(dim, ops)

OpinionOrders(seq) ==
    { [i \in 1..Len(seq) |-> seq[p[i]]] :
        p \in {q \in [1..Len(seq) -> 1..Len(seq)] :
                  \A i, k \in 1..Len(seq) : i # k => q[i] # q[k]} }

Verdicts(report) ==
    [i \in 1..Len(report.criteria) |->
        [dimension_id |-> report.criteria[i].dimension_id,
         final_score |-> report.criteria[i].final_score,
         dissent_summary |-> report.criteria[i].dissent_summary,
         remediation |-> report.criteria[i].remediation]]

C21_OrderIndependent ==
    Arbitrated =>
        \A perm \in OpinionOrders(opinions) :
            LET other == chief_justice_node([State EXCEPT !.opinions = perm]).final_report
            IN /\ Verdicts(other) = Verdicts(final_report)
               /\ other.overall_score = final_report.overall_score

\* three judges on the dimension and an opinion on another dimension
C21_Witness ==
    /\ Arbitrated
    /\ Len(opinions) = 4
    /\ Len(Criteria) = 2
    /\ \E i \in 1..Len(Criteria) :
          /\ Len(Criteria[i].judge_opinions) = 3
          /\ Criteria[i].dissent_summary # NoDissent

----------------------------------------------------------------------------
(* The three override rules, one by one *)

\* the arithmetic mean of the scores of a result's opinions, as a fraction
Mean(r) ==
    <<SumSeq([k \in 1..Len(r.judge_opinions) |-> r.judge_opinions[k].score]),
      Len(r.judge_opinions)>>

\* the declared level scores at the least distance from the fraction a
NearestDeclared(dim, a) ==
    {x \in DeclaredScores(dim) :
        \A y \in DeclaredScores(dim) : Abs(x * a[2] - a[1]) <= Abs(y * a[2] - a[1])}

NoOverride(r) ==
    /\ ~SecurityTriggered(r.judge_opinions, evidences)
    /\ r.dimension_id # "graph_orchestration"
    /\ ~EvidenceOverrule(r.judge_opinions, evidences)

(* C24: when no override rule triggers for a dimension (no security        *)
(* trigger, not graph_orchestration, no evidence cap) and the dimension    *)
(* declares levels, the final score is a declared level score nearest to   *)
(* the arithmetic mean of the scores of the dimension's opinions.          *)
C24_NoOverrideNearestToMean ==
    Arbitrated =>
        \A i \in 1..Len(Criteria) :
            (NoOverride(Criteria[i]) /\ Len(DimOf(Criteria[i]).levels) > 0)
                => Criteria[i].final_score \in NearestDeclared(DimOf(Criteria[i]), Mean(Criteria[i]))

\* opinions 4, 6 and 8: the mean is 6 and the level nearest to 6 is 5
C24_Witness ==
    /\ Arbitrated
    /\ \E i \in 1..Len(Criteria) :
          /\ NoOverride(Criteria[i])
          /\ Len(Criteria[i].judge_opinions) = 3
          /\ RawScores(Criteria[i]) = {4, 6, 8}
          /\ Mean(Criteria[i]) = <<18, 3>>
          /\ DeclaredScores(DimOf(Criteria[i])) = {1, 5, 10}
          /\ Criteria[i].final_score = 5

\* the two fractions differ in value
Changed(a, b) == a[1] * b[2] # b[1] * a[2]

\* a Prosecutor opinion with a low score and a security keyword
ProsecutorSignal(ops) ==
    \E k \in 1..Len(ops) :
        /\ ops[k].judge = "Prosecutor"
        /\ ops[k].score < SecurityScoreLimit
        /\ \E w \in SecurityWords : \E m \in 1..Len(ops[k].argument) :
              Lower(ops[k].argument[m]) = w

(* C25 as claimed: the Rule of Security changes the score of a dimension   *)
(* only when the dimension's Prosecutor opinion reports a low score with a *)
(* security signal; without such an opinion the baseline is unchanged,     *)
(* whatever the evidence map contains.                                     *)
C25_SecurityOnlyOnProsecutorSignal ==
    Arbitrated =>
        \A d \in 1..Len(rubric_dimensions) :
            LET ops == DimOpinions(opinions, rubric_dimensions[d])
            IN (ops # <<>> /\ ~ProsecutorSignal(ops))
                  => ~Changed(AfterSecurity(rubric_dimensions[d], ops), Baseline(ops))

(* C25 amended: the Rule of Security changes the score of a dimension only *)
(* when the dimension's Prosecutor opinion reports a score below 15 with a *)
(* security keyword, or when the repository evidence reports               *)
(* safe_tool_engineering as not found; in every other case the baseline is *)
(* unchanged, and a change lowers the score to 3.                          *)
C25_SecurityOnSignalOrUnsafeTooling ==
    Arbitrated =>
        \A d \in 1..Len(rubric_dimensions) :
            LET ops == DimOpinions(opinions, rubric_dimensions[d])
                after == AfterSecurity(rubric_dimensions[d], ops)
            IN ops # <<>> =>
                  /\ (~ProsecutorSignal(ops) /\ ~UnsafeToolingFound)
                        => ~Changed(after, Baseline(ops))
                  /\ Changed(after, Baseline(ops)) => ~Changed(after, Frac(SecurityCap))

\* unsafe tooling in the evidence lowers the score without a Prosecutor signal
C25_Witness ==
    /\ Arbitrated
    /\ UnsafeToolingFound
    /\ \E d \in 1..Len(rubric_dimensions) :
          LET ops == DimOpinions(opinions, rubric_dimensions[d])
          IN /\ ops # <<>>
             /\ ~ProsecutorSignal(ops)
             /\ \E k \in 1..Len(ops) : ops[k].judge = "Prosecutor"
             /\ Changed(AfterSecurity(rubric_dimensions[d], ops), Baseline(ops))

\* the opinions of one role on a dimension
ByRole(ops, judge) == SelectSeq(ops, LAMBDA o : o.judge = judge)

(* C26: Rule of Functionality: on the dimension graph_orchestration with a *)
(* TechLead opinion present, the score after the rule equals the           *)
(* TechLead's score; on every other dimension, and without a TechLead      *)
(* opinion, the rule leaves the score unchanged.                           *)
C26_FunctionalityTakesTechLead ==
    Arbitrated =>
        \A d \in 1..Len(rubric_dimensions) :
            LET dim == rubric_dimensions[d]
                ops == DimOpinions(opinions, dim)
                after == AfterFunctionality(dim, ops)
            IN ops # <<>> =>
                  IF dim.id = "graph_orchestration" /\ ByRole(ops, "TechLead") # <<>>
                  THEN ~Changed(after, Frac(ByRole(ops, "TechLead")[1].score))
                  ELSE ~Changed(after, AfterSecurity(dim, ops))

\* the TechLead's score replaces a different score on graph_orchestration
C26_Witness ==
    /\ Arbitrated
    /\ \E d \in 1..Len(rubric_dimensions) :
          LET dim == rubric_dimensions[d]
              ops == DimOpinions(opinions, dim)
          IN /\ dim.id = "graph_orchestration"
             /\ Len(ops) = 3
             /\ ByRole(ops, "TechLead") # <<>>
             /\ Changed(AfterFunctionality(dim, ops), AfterSecurity(dim, ops))

\* the evidence audit: a missing source or a hallucinated path
AuditFails ==
    \/ /\ "aggregation" \in DOMAIN evidences
       /\ \E k \in 1..Len(evidences["aggregation"]) :
             /\ evidences["aggregation"][k].goal = "evidence_completeness"
             /\ ~evidences["aggregation"][k].found
    \/ /\ "doc" \in DOMAIN evidences
       /\ \E k \in 1..Len(evidences["doc"]) :
             /\ evidences["doc"][k].goal = "path_hallucinations_detected"
             /\ evidences["doc"][k].found

DefenseOverruled(ops) ==
    /\ ByRole(ops, "Defense") # <<>>
    /\ ByRole(ops, "Defense")[1].score > DefenseThreshold
    /\ AuditFails

(* C27: Rule of Evidence: when the Defense opinion scores above 21 and the *)
(* evidence audit shows evidence_completeness not found or hallucinated    *)
(* paths, the score after the rule is at most the TechLead's score, or at  *)
(* most the fixed cap 21 without a TechLead opinion; in every other case   *)
(* the rule leaves the score unchanged; the rule never raises a score.     *)
C27_EvidenceCapsNeverRaises ==
    Arbitrated =>
        \A d \in 1..Len(rubric_dimensions) :
            LET dim == rubric_dimensions[d]
                ops == DimOpinions(opinions, dim)
                before == AfterFunctionality(dim, ops)
                after == AfterEvidence(dim, ops)
            IN ops # <<>> =>
                  /\ FracLeq(after, before)
                  /\ IF DefenseOverruled(ops)
                     THEN FracLeq(after, Frac(IF ByRole(ops, "TechLead") # <<>>
                                              THEN ByRole(ops, "TechLead")[1].score
                                              ELSE EvidenceCap))
                     ELSE ~Changed(after, before)

\* the Defense is overruled and the score is lowered
C27_Witness ==
    /\ Arbitrated
    /\ \E d \in 1..Len(rubric_dimensions) :
          LET dim == rubric_dimensions[d]
              ops == DimOpinions(opinions, dim)
          IN /\ ops # <<>>
             /\ DefenseOverruled(ops)
             /\ ByRole(ops, "TechLead") = <<>>
             /\ Changed(AfterEvidence(dim, ops), AfterFunctionality(dim, ops))

\* the Defense is overruled and the TechLead's score is the cap
C27_TechLeadCaps ==
    /\ Arbitrated
    /\ \E d \in 1..Len(rubric_dimensions) :
          LET dim == rubric_dimensions[d]
              ops == DimOpinions(opinions, dim)
          IN /\ DefenseOverruled(ops)
             /\ ByRole(ops, "TechLead") # <<>>
             /\ Changed(AfterEvidence(dim, ops), AfterFunctionality(dim, ops))

----------------------------------------------------------------------------
(* Frame of Fan-out A, failures of the judges, the error list *)

Fallbacks == {i \in 1..Len(opinions) : IsFallback(opinions[i])}

\* error entries that come neither from a detective nor from abort_node
JudgeErrors ==
    {i \in 1..Len(errors) :
        /\ \A n \in Detectives : Head(errors[i]) \notin ErrorTag(n)
        /\ errors[i] # AbortMessage}

\* the report carries opinion o under its dimension
Reported(o) ==
    \E i \in 1..Len(Criteria) :
        /\ Criteria[i].dimension_id = o.criterion_id
        /\ \E k \in 1..Len(Criteria[i].judge_opinions) : Criteria[i].judge_opinions[k] = o

\* the batches of the three judges are whole and the run was arbitrated
SiblingsKeptAndArbitrated ==
    /\ Len(opinions) = 3 * Len(rubric_dimensions)
    /\ final_report # None
    /\ \A i \in 1..Len(opinions) : Reported(opinions[i])

Emitted(n) == IF Failed(n) THEN {returned[n].errors[i] : i \in 1..Len(returned[n].errors)} ELSE {}

\* what the caller of graph.invoke finds in the error list
ErrorsComplete ==
    /\ \A n \in Detectives : \A e \in Emitted(n) : \E i \in 1..Len(errors) : errors[i] = e
    /\ AbortOutcome => (errors # <<>> /\ errors[Len(errors)] = AbortMessage)

(* C30: errors are never lost: every step leaves the previous error list   *)
(* as a prefix of the new one; when the run has ended the list holds every *)
(* error entry a detective emitted and, when abort has run, it ends with   *)
(* the abort message.                                                      *)
C30_ErrorsNeverLost ==
    [][/\ IsPrefix(errors, errors')
       /\ Ended' => ErrorsComplete']_vars

\* an aborted run has ended with a detective's error followed by the abort message
C30_Witness ==
    /\ Ended
    /\ AbortOutcome
    /\ final_report = None
    /\ Len(errors) >= 2
    /\ \E n \in Detectives : Emitted(n) # {}

\* abort ran beside the aggregator and the router repeated the error list
C30_RepeatedByRouter ==
    /\ Ended
    /\ AbortOutcome
    /\ final_report # None
    /\ Len(errors) = 4

----------------------------------------------------------------------------
(* Progress.  The executor is fair to each kind of step: a node that can   *)
(* return eventually returns, a model call eventually completes (with a    *)
(* reply or an exception), a pending update is eventually merged and a     *)
(* triggered superstep eventually starts.  Each action below is the        *)
(* projection of the corresponding actions of Next on the variables named  *)
(* in the subscript of its fairness condition.                             *)

\* node n has nothing left to wait for: a judge returns after its last dimension
CanReturn(n) ==
    \/ n \in running \ JudgeNodes
    \/ \E j \in Judges : n = JudgeNode(j) /\ JudgeActive(j) /\ jdim[j] >= Len(rubric_dimensions)

NodeReturns == \E n \in running : CanReturn(n) /\ running' = running \ {n}

\* structured_llm.invoke(prompt) returns or raises
CallCompletes ==
    \E j \in Judges :
        /\ JudgeActive(j)
        /\ jdim[j] <= Len(rubric_dimensions)
        /\ \/ jcalls' = [jcalls EXCEPT ![j] = @ + 1] /\ jdim' = jdim
           \/ jcalls' = [jcalls EXCEPT ![j] = 0] /\ jdim' = [jdim EXCEPT ![j] = @ + 1]

UpdateMerged ==
    /\ running = {}
    /\ \E n \in DOMAIN pending : pending' = [m \in (DOMAIN pending) \ {n} |-> pending[m]]

SuperstepStarts ==
    /\ running = {}
    /\ DOMAIN pending = {}
    /\ next_nodes # {}
    /\ superstep' = superstep + 1

\* every step of Next is one of the four kinds of step
StepKinds == [][NodeReturns \/ CallCompletes \/ UpdateMerged \/ SuperstepStarts]_vars

SpecLive ==
    /\ Spec
    /\ WF_running(NodeReturns)
    /\ WF_<<jcalls, jdim>>(CallCompletes)
    /\ WF_pending(UpdateMerged)
    /\ WF_superstep(SuperstepStarts)

\* graph.invoke returns
Terminates == <>Ended

(* C22: every run eventually ends, and it ends in exactly one terminal     *)
(* outcome: either Abort has run or Arbitrate has run, never both and      *)
(* never neither.                                                          *)
C22_TerminatesInOneOutcome ==
    /\ <>Ended
    /\ [](Ended => (AbortOutcome <=> ~ArbitrateOutcome))

----------------------------------------------------------------------------
(* The routing decision after aggregation, on evidence maps of every shape *)
(* (graph.py after_aggregation is a function of the evidence map alone).   *)

MaxItems == 2           \* evidence items under one source key

RouteKeys == {"repo", "doc", "vision", "aggregation"}

RouteItem == Evidence("git_forensic_analysis", TRUE, <<"commits">>, 1, 1)

\* each key is missing or holds a list of 0..MaxItems items
RouteEvidences ==
    UNION { [keys -> { [i \in 1..n |-> RouteItem] : n \in 0..MaxItems }] :
              keys \in SUBSET RouteKeys }

InitRoute ==
    /\ repo_url = "https://github.com/o/r"
    /\ pdf_path = ""
    /\ local_repo_path = ""
    /\ rubric_dimensions = <<DimSafe>>
    /\ evidences \in RouteEvidences
    /\ opinions = <<>>
    /\ final_report = None
    /\ errors = <<>>
    /\ running = {"evidence_aggregator"}
    /\ pending = NoUpdate
    /\ next_nodes = {}
    /\ superstep = 2
    /\ runs = [n \in Nodes |-> IF n \in Detectives \cup {"evidence_aggregator"} THEN 1 ELSE 0]
    /\ returned = [n \in Nodes |-> NoUpdate]
    /\ seen = [n \in Nodes |-> EmptyMap]
    /\ jdim = [j \in Judges |-> 0]
    /\ jcalls = [j \in Judges |-> 0]
    /\ jop = [j \in Judges |-> None]
    /\ jlast = [j \in Judges |-> NoError]
    /\ jops = [j \in Judges |-> <<>>]
    /\ faults = 0

\* the aggregate stage is over: its conditional edge reads the evidence map
AfterAggregationEdge ==
    /\ "evidence_aggregator" \in running
    /\ Return("evidence_aggregator", NoUpdate, {AggregatorRoute(State, NoUpdate)})
    /\ UNCHANGED <<judgeVars, faults>>

NextRoute ==
    \/ AfterAggregationEdge
    \/ ApplyWrites("evidence_aggregator")
    \/ StartSuperstep

SpecRoute == InitRoute /\ [][NextRoute]_vars

\* sum(len(v) for v in evidences.values()), counted item by item
TotalItems == Cardinality({ <<k, i>> \in (DOMAIN evidences) \X (1..MaxItems) : i <= Len(evidences[k]) })

\* the stage that follows the aggregate stage has started
RoutedAfterAggregate == superstep = 3

(* C23: after the aggregate stage the run goes to Abort exactly when the   *)
(* evidence items summed over all source keys number less than 1, and to   *)
(* Fan-out B (the router to the judges) otherwise.                         *)
C23_AbortIffBelowMinimum ==
    RoutedAfterAggregate =>
        /\ running \in {{"abort"}, {"router_to_judges"}}
        /\ running = {"abort"} <=> TotalItems < 1

\* exactly one item: the run goes to the judges
C23_Witness ==
    /\ RoutedAfterAggregate
    /\ TotalItems = 1
    /\ running = {"router_to_judges"}

\* no item under any key, with keys present: the run aborts
C23_ZeroAborts ==
    /\ RoutedAfterAggregate
    /\ TotalItems = 0
    /\ DOMAIN evidences # {}
    /\ running = {"abort"}

----------------------------------------------------------------------------
(* The aggregate stage *)

\* the step merges the update returned by node n
Merges(n) == n \in DOMAIN pending /\ n \notin DOMAIN pending'

(* C31: the aggregate stage writes only under the key 'aggregation': in    *)
(* its superstep the lists under 'repo', 'doc' and 'vision' stay what they *)
(* were at Barrier A, no key is removed, opinions and final_report do not  *)
(* change, and the merge of its update adds the key 'aggregation' and      *)
(* leaves the error list alone.                                            *)
C31_AggregatorWritesOwnKey ==
    [][superstep = 2 =>
          /\ \A k \in DOMAIN evidences :
                k \in DOMAIN evidences' /\ (k # "aggregation" => evidences'[k] = evidences[k])
          /\ UNCHANGED <<opinions, final_report>>
          /\ Merges("evidence_aggregator") =>
                /\ DOMAIN evidences' = DOMAIN evidences \cup {"aggregation"}
                /\ "aggregation" \notin DOMAIN evidences
                /\ UNCHANGED errors]_vars

\* the audit is merged beside the lists of two detectives, after a failure
C31_Witness ==
    /\ superstep = 2
    /\ running = {}
    /\ "evidence_aggregator" \notin DOMAIN pending
    /\ {"aggregation", "doc", "vision"} \subseteq DOMAIN evidences
    /\ evidences["doc"] # <<>>
    /\ errors # <<>>

----------------------------------------------------------------------------
(* Frame of the arbitration *)

\* the opinions of the run on the dimension with this id, in the order of the list
OpinionsOn(id) == SelectSeq(opinions, LAMBDA o : o.criterion_id = id)

(* C32: the arbitration never changes the opinions: the opinion list of    *)
(* the run is the same before and after the arbitration superstep, and the *)
(* contributing opinions of every CriterionResult are exactly the          *)
(* sub-list of the opinions whose criterion id is the dimension id, with   *)
(* their scores and arguments as the judges gave them.                     *)
C32_OpinionsReadOnly ==
    [][superstep = 5 =>
          /\ UNCHANGED opinions
          /\ final_report' # None =>
                \A i \in 1..Len(final_report'.criteria) :
                    final_report'.criteria[i].judge_opinions
                        = OpinionsOn(final_report'.criteria[i].dimension_id)]_vars

\* a rule changed the score of a dimension with three opinions, another
\* dimension has its own opinion
C32_Witness ==
    /\ Arbitrated
    /\ Len(opinions) = 4
    /\ Len(Criteria) = 2
    /\ \E i \in 1..Len(Criteria) :
          /\ Len(Criteria[i].judge_opinions) = 3
          /\ SecurityTriggered(Criteria[i].judge_opinions, evidences)
          /\ Criteria[i].final_score \notin RawScores(Criteria[i])

----------------------------------------------------------------------------
(* The scale of the opinions *)

ScaleMin == 1           \* judges.py: "SCORING CRITERIA (1-10 Scale)"
ScaleMax == 10

(* C33: every opinion in the opinion list of the run, the fallback         *)
(* opinions included, has a score within the 1-10 scale the judges are     *)
(* instructed to use.                                                      *)
C33_ScoresWithinScale ==
    \A i \in 1..Len(opinions) : opinions[i].score \in ScaleMin..ScaleMax

----------------------------------------------------------------------------
(* The pass-through router *)

(* C34: the router between the aggregate stage and the judges leaves the   *)
(* state unchanged: the evidence map, the opinion list and the error list  *)
(* are the same before and after its superstep, so no error entry is       *)
(* repeated.                                                               *)
C34_RouterLeavesStateUnchanged ==
    [][superstep = 3 => UNCHANGED <<evidences, opinions, errors>>]_vars

----------------------------------------------------------------------------
(* The audit of the aggregate stage *)

\* the list the aggregator returned under 'aggregation'
Audit == returned["evidence_aggregator"].evidences["aggregation"]
Aggregated == returned["evidence_aggregator"] # NoUpdate

\* the number of evidence items in the state
EvidenceCount == CountItems(evidences, DOMAIN evidences)

(* C35: the aggregate stage always returns at least one item under         *)
(* 'aggregation', the first being evidence_completeness; hence the edge    *)
(* after aggregation always takes 'sufficient_evidence' to the router, the *)
(* state after the stage holds at least one item, and abort is only ever   *)
(* scheduled by the edges of the detectives.                               *)
C35_AbortAfterAggregationNeverTaken ==
    /\ Aggregated =>
          /\ Len(Audit) >= 1
          /\ Audit[1].goal = "evidence_completeness"
    /\ "evidence_aggregator" \in DOMAIN pending => next_nodes = {"router_to_judges"}
    /\ "abort" \in Scheduled => superstep = 2
    /\ superstep >= 3 => (Aggregated /\ EvidenceCount >= MinEvidence)

\* the aggregator has returned on the evidence of a single detective
C35_Witness ==
    /\ "evidence_aggregator" \in DOMAIN pending
    /\ DOMAIN seen["evidence_aggregator"] = {"doc"}
    /\ next_nodes = {"router_to_judges"}

----------------------------------------------------------------------------
(* Snapshot isolation in Fan-out A *)

\* the run was started without a local path: the path is still empty or is
\* the clone written by repo_investigator
StartedWithoutLocalPath == local_repo_path \in {"", ClonePath}

\* the items of a 'doc' list that come from cross-referencing paths
CrossReferenced(items) ==
    {i \in 1..Len(items) :
        items[i].goal \in {"report_accuracy_forensics", "path_hallucinations_detected"}}

\* if (hallucinations and hallucinations.found) can hold on this evidence map
HallucinationBranch(ev) ==
    /\ "doc" \in DOMAIN ev
    /\ \E i \in 1..Len(ev["doc"]) :
          ev["doc"][i].goal = "path_hallucinations_detected" /\ ev["doc"][i].found

(* C36: doc_analyst reads local_repo_path from the state as it was before  *)
(* Fan-out A and never the path repo_investigator writes in the same       *)
(* fan-out: in a run started without a local path it cross-references no   *)
(* path, its path_hallucinations_detected item has found = false, and the  *)
(* hallucination branch of the Rule of Evidence cannot hold on the         *)
(* evidence map, the one the chief justice reads included.                 *)
C36_DocAnalystReadsSnapshot ==
    StartedWithoutLocalPath =>
        /\ Succeeded("doc_analyst") =>
              \A i \in CrossReferenced(returned["doc_analyst"].evidences["doc"]) :
                  ~returned["doc_analyst"].evidences["doc"][i].found
        /\ ~HallucinationBranch(evidences)
        /\ ~HallucinationBranch(seen["chief_justice"])

\* the clone path is in the state, the report was analysed, and the run was arbitrated
C36_Witness ==
    /\ local_repo_path = ClonePath
    /\ Succeeded("repo_investigator")
    /\ Succeeded("doc_analyst")
    /\ "doc" \in DOMAIN evidences
    /\ CrossReferenced(evidences["doc"]) # {}
    /\ final_report # None

----------------------------------------------------------------------------
(* What a detective contributes *)

\* the source key a detective owns
OwnKey(n) ==
    CASE n = "repo_investigator" -> "repo"
      [] n = "doc_analyst" -> "doc"
      [] n = "vision_inspector" -> "vision"

SourceKeys == {"repo", "doc", "vision", "aggregation"}

(* C37: a detective contributes exactly one of two things: its own source  *)
(* key with its evidence list, or one error entry, never both and never    *)
(* neither; each key is written by a single detective, so after Barrier A  *)
(* the list under a key is the list its owner returned; the keys of the    *)
(* evidence map are always among repo, doc, vision and aggregation.        *)
C37_OneKeyOrOneError ==
    /\ \A n \in Detectives : returned[n] # NoUpdate =>
          /\ ("evidences" \in DOMAIN returned[n]) # ("errors" \in DOMAIN returned[n])
          /\ "evidences" \in DOMAIN returned[n] =>
                DOMAIN returned[n].evidences = {OwnKey(n)}
          /\ "errors" \in DOMAIN returned[n] => Len(returned[n].errors) = 1
    /\ DOMAIN evidences \subseteq SourceKeys
    /\ (superstep >= 2 \/ BarrierA) =>
          \A n \in Detectives :
              IF Succeeded(n)
              THEN /\ OwnKey(n) \in DOMAIN evidences
                   /\ evidences[OwnKey(n)] = returned[n].evidences[OwnKey(n)]
              ELSE OwnKey(n) \notin DOMAIN evidences

\* Barrier A after one failure and two lists
C37_Witness ==
    /\ BarrierA
    /\ Failed("vision_inspector")
    /\ DOMAIN evidences = {"repo", "doc"}
    /\ Len(errors) = 1

----------------------------------------------------------------------------
(* The completeness audit *)

\* the items of the audit with this goal
AuditItems(goal) == {i \in 1..Len(Audit) : Audit[i].goal = goal}

\* abort_node's message is not in the error list yet
AbortUnmerged == runs["abort"] = 0 \/ "abort" \in Scheduled

(* C38: the audit holds one evidence_completeness item, whose found is     *)
(* true if and only if the aggregator read the three keys repo, doc and    *)
(* vision, that is if and only if no detective failed; an error_summary    *)
(* item is in the audit if and only if the error list the aggregator read  *)
(* was not empty.                                                          *)
C38_CompletenessIffAllSources ==
    Aggregated =>
        /\ Cardinality(AuditItems("evidence_completeness")) = 1
        /\ \A i \in AuditItems("evidence_completeness") :
              /\ Audit[i].found <=> {"repo", "doc", "vision"} \subseteq DOMAIN seen["evidence_aggregator"]
              /\ Audit[i].found <=> \A n \in Detectives : Succeeded(n)
        /\ AuditItems("error_summary") # {} <=> \E n \in Detectives : Failed(n)
        /\ (superstep = 2 /\ AbortUnmerged) =>
              (AuditItems("error_summary") # {} <=> errors # <<>>)

\* two sources present, one detective failed
C38_Witness ==
    /\ Aggregated
    /\ DOMAIN seen["evidence_aggregator"] = {"repo", "doc"}
    /\ \A i \in AuditItems("evidence_completeness") : ~Audit[i].found
    /\ AuditItems("error_summary") # {}

\* the three sources are present and the audit reports no error
C38_Complete ==
    /\ Aggregated
    /\ \A i \in AuditItems("evidence_completeness") : Audit[i].found
    /\ AuditItems("error_summary") = {}

----------------------------------------------------------------------------
(* The range of the scores of the report *)

\* every dimension of the rubric declares levels, with non-negative scores
LevelsDeclared ==
    \A d \in 1..Len(rubric_dimensions) :
        /\ Len(rubric_dimensions[d].levels) > 0
        /\ \A v \in DeclaredScores(rubric_dimensions[d]) : v >= 0

\* the greatest declared level score of a dimension
TopLevel(dim) == CHOOSE x \in DeclaredScores(dim) : \A y \in DeclaredScores(dim) : y <= x

(* C39: for a rubric whose dimensions all declare levels with non-negative *)
(* scores, the final score of every CriterionResult lies between 0 and the *)
(* greatest level score of its dimension, and the overall score of the     *)
(* report lies between 0 and 100.                                          *)
C39_ScoresWithinRange ==
    (Arbitrated /\ LevelsDeclared) =>
        /\ \A i \in 1..Len(Criteria) :
              /\ 0 <= Criteria[i].final_score
              /\ Criteria[i].final_score <= TopLevel(DimOf(Criteria[i]))
        /\ final_report.overall_score[2] > 0
        /\ 0 <= final_report.overall_score[1]
        /\ final_report.overall_score[1] <= 100 * final_report.overall_score[2]

\* a raw score above the greatest level was arbitrated to that level, in a
\* report of two dimensions with a positive overall score
C39_Witness ==
    /\ Arbitrated
    /\ LevelsDeclared
    /\ Len(Criteria) = 2
    /\ \E i \in 1..Len(Criteria) :
          /\ \E s \in RawScores(Criteria[i]) : s > TopLevel(DimOf(Criteria[i]))
          /\ Criteria[i].final_score = TopLevel(DimOf(Criteria[i]))
    /\ final_report.overall_score[1] > 0

====
